---- MODULE Spec2Model ----
(***************************************************************************)
(* State-machine model of the chat backend: the Store (guilds with their   *)
(* embedded roles, channels, messages, invites), the request handlers of   *)
(* the REST routes, each cut at its awaited Store accesses, and the events *)
(* the handlers hand to socket.io.                                         *)
(*                                                                         *)
(* A request is started by a ...Begin action (the handler up to and        *)
(* including its last read and its checks); a request that passes its      *)
(* checks stays in flight in reqs and finishes through the actions named   *)
(* after its Store writes.  Several requests may be in flight at once.     *)
(***************************************************************************)
EXTENDS Integers, Sequences, FiniteSets, Bags

VARIABLES guilds, channels, messages, invites, conversations, sockets, reqs, now, resp, events

vars == <<guilds, channels, messages, invites, conversations, sockets, reqs, now, resp, events>>
store == <<guilds, channels, messages, invites, conversations>>

(***************************************************************************)
(* Bounds of the model.                                                    *)
(***************************************************************************)
MaxGuilds == 1
MaxChannels == 2
MaxMessages == 1
MaxInvites == 1
MaxInFlight == 2
MaxTime == 1
\* Redemptions of one invite that the model follows (its uses counter is unbounded).
MaxJoins == 2
\* Largest maxUses of an invite in the Store at the start.
MaxUses == 2

\* expiresAt default: 7 days after construction; one unit of now is 7 days.
InviteTTL == 1

\* Roles of one guild that the model follows.
MaxRoles == 3
\* Conversation documents and socket connections that the model follows.
MaxConversations == 2
MaxSockets == 2

Users == {"A", "B", "C"}
\* Request bodies: the names a channel or a guild is given, the roles that are created.
ChannelNames == <<"general", "lobby">>
GuildNames == <<"guild", "renamed">>
\* The content of a message: the first as posted, any of them as edited.
Contents == <<"hello", "edited">>
RoleBodies == << [name |-> "Mod", permissions |-> {"KICK_MEMBERS", "MANAGE_CHANNELS"}],
                [name |-> "@everyone", permissions |-> {"ADMINISTRATOR"}] >>
GuildIds == 1..MaxGuilds
ChannelIds == 1..MaxChannels
MessageIds == 1..MaxMessages
InviteIds == 1..MaxInvites
ConversationIds == 1..MaxConversations
SocketIds == 1..MaxSockets

(***************************************************************************)
(* Identifiers.  A user id is an ObjectId; a route parameter is the raw    *)
(* string of the URL.  toString() gives the canonical (lower-case) hex     *)
(* string of an id, while casting a string to an ObjectId accepts either   *)
(* letter case: a string is modelled by the id it casts to and by whether  *)
(* it is the canonical spelling.                                           *)
(***************************************************************************)
IdStrings == [id : Users, canon : BOOLEAN]
toString(u) == [id |-> u, canon |-> TRUE]
CastObjectId(s) == s.id
NoString == [id |-> "-", canon |-> TRUE]
\* An id that names no User document (a token or a request body may carry it).
NoUser == "Z"

(***************************************************************************)
(* Documents.  st is "absent" (never saved), "live" or "deleted".          *)
(***************************************************************************)
Live(d) == d.st = "live"
NoGuild(st) == [st |-> st, name |-> "-", owner |-> "-", members |-> EmptyBag, roles |-> <<>>]
NoChannel(st) == [st |-> st, guild |-> 0, name |-> "-"]
NoMessage(st) == [st |-> st, author |-> "-", channel |-> 0, conversationId |-> 0, content |-> "-"]
NoInvite(st) == [st |-> st, guild |-> 0, creator |-> "-", uses |-> 0, maxUses |-> 0, expiresAt |-> 0]
\* participants is an array of ids, in the order given at construction.
NoConversation(st) == [st |-> st, participants |-> <<>>, creator |-> "-", lastMessage |-> 0]
\* A socket: st is "none" (not yet attempted), "refused", "connected" or
\* "disconnected"; rooms are the room keys the adapter holds for its id.
NoToken == [kind |-> "missing", id |-> "-"]
NoSocket == [st |-> "none", token |-> NoToken, user |-> "-", rooms |-> {}]

\* An array of user ids (guild.members, role.members) is kept as the bag of its
\* elements: the code reads such an array only through includes() and $pull,
\* which do not depend on the order, while an id may occur in it more than once.
Includes(arr, x) == BagIn(x, arr)
Push(arr, x) == arr (+) SetToBag({x})
Pull(arr, x) == [y \in DOMAIN arr \ {x} |-> arr[y]]

\* new Invite({guild, creator}) with the schema's defaults, constructed at time t.
inviteSchema(g, u, t) ==
  [st |-> "live", guild |-> g, creator |-> u, uses |-> 0, maxUses |-> 0, expiresAt |-> t + InviteTTL]

isExpired(invite, t) == invite.expiresAt < t

isMaxUsesReached(invite) ==
  IF invite.maxUses = 0 THEN FALSE ELSE invite.uses >= invite.maxUses

\* Mutant: the Admin role is created without its member.
preSave_EmptyAdmin(g) ==
  [g EXCEPT !.roles = g.roles \o
     << [name |-> "@everyone",
         permissions |-> {"VIEW_CHANNELS", "SEND_MESSAGES", "READ_MESSAGE_HISTORY"},
         members |-> g.members],
        [name |-> "Admin", permissions |-> {"ADMINISTRATOR"}, members |-> EmptyBag] >>]

\* guildSchema.pre('save') of a new document: the two default roles.
preSave(g) ==
  [g EXCEPT !.roles = g.roles \o
     << [name |-> "@everyone",
         permissions |-> {"VIEW_CHANNELS", "SEND_MESSAGES", "READ_MESSAGE_HISTORY"},
         members |-> g.members],
        [name |-> "Admin", permissions |-> {"ADMINISTRATOR"}, members |-> SetToBag({g.owner})] >>]

(***************************************************************************)
(* The permission checks, as each handler writes them.                     *)
(***************************************************************************)
RoleGrants(g, u, p) ==
  \E i \in DOMAIN g.roles : p \in g.roles[i].permissions /\ Includes(g.roles[i].members, u)

isAdmin(g, u) == g.owner = u \/ RoleGrants(g, u, "ADMINISTRATOR")

\* Mutant: the channel routes let every requester through.
canManageChannels_Anyone(g, u) == TRUE

canManageChannels(g, u) == isAdmin(g, u) \/ RoleGrants(g, u, "MANAGE_CHANNELS")
canKickMembers(g, u) == isAdmin(g, u) \/ RoleGrants(g, u, "KICK_MEMBERS")
\* Mutant: create-role lets every requester through.
canManageRoles_Anyone(g, u) == TRUE

canManageRoles(g, u) == isAdmin(g, u) \/ RoleGrants(g, u, "MANAGE_ROLES")
\* Mutant: create-invite asks for SEND_MESSAGES, which @everyone grants.
canCreateInvites_Senders(g, u) == isAdmin(g, u) \/ RoleGrants(g, u, "SEND_MESSAGES")

canCreateInvites(g, u) == isAdmin(g, u) \/ RoleGrants(g, u, "CREATE_INVITE")
canManageGuild(g, u) == isAdmin(g, u) \/ RoleGrants(g, u, "MANAGE_GUILD")
canManageMessages(g, u) == isAdmin(g, u) \/ RoleGrants(g, u, "MANAGE_MESSAGES")

canSendMessages(g, u) ==
  \E i \in DOMAIN g.roles :
    Includes(g.roles[i].members, u) /\ "SEND_MESSAGES" \in g.roles[i].permissions

(***************************************************************************)
(* Rooms, events, responses, requests in flight.                           *)
(***************************************************************************)
GuildRoom(g) == [kind |-> "guild", id |-> g, who |-> NoString]
ChannelRoom(c) == [kind |-> "channel", id |-> c, who |-> NoString]
UserRoom(s) == [kind |-> "user", id |-> 0, who |-> s]
ConversationRoom(c) == [kind |-> "conversation", id |-> c, who |-> NoString]
Event(name, room) == [name |-> name, room |-> room]

NoResp == [op |-> "-", user |-> "-", id |-> 0, g |-> 0, status |-> "-", why |-> "-"]
Response(op, u, id, g, status, why) ==
  [op |-> op, user |-> u, id |-> id, g |-> g, status |-> status, why |-> why]

Req(op, u, pc, id, g, tgt, n, k) ==
  [op |-> op, user |-> u, pc |-> pc, id |-> id, g |-> g, tgt |-> tgt, n |-> n, k |-> k]

InFlight == BagToSet(reqs)
CanStart == BagCardinality(reqs) < MaxInFlight
Started(r) == reqs (+) SetToBag({r})
Finished(r) == reqs (-) SetToBag({r})
Moved(r, r2) == (reqs (-) SetToBag({r})) (+) SetToBag({r2})
At(op, pc) == {r \in InFlight : r.op = op /\ r.pc = pc}

\* A handler that answers without going on: the request leaves no trace in reqs.
Answer(op, u, id, g, status, why) ==
  /\ resp' = Response(op, u, id, g, status, why)
  /\ events' = {}

Fail(r, status, why) ==
  /\ reqs' = Finished(r)
  /\ resp' = Response(r.op, r.user, r.id, r.g, status, why)
  /\ events' = {}

Succeed(r, evs) ==
  /\ reqs' = Finished(r)
  /\ resp' = Response(r.op, r.user, r.id, r.g, "OK", "-")
  /\ events' = evs

GoOn(r, r2) ==
  /\ reqs' = Moved(r, r2)
  /\ resp' = NoResp
  /\ events' = {}

\* Ids are chosen when the document is constructed; one in use by a request in
\* flight is not handed out again.
FreeGuilds == {g \in GuildIds : guilds[g].st = "absent" /\ \A r \in InFlight : ~(r.op = "createGuild" /\ r.g = g)}
FreeChannels ==
  {c \in ChannelIds : channels[c].st = "absent"
     /\ \A r \in InFlight : ~(r.op \in {"createGuild", "createChannel"} /\ r.id = c)}
FreeMessages == {m \in MessageIds : messages[m].st = "absent" /\ \A r \in InFlight : ~(r.op \in {"postMessage", "sendMessage"} /\ r.n = m)}
FreeInvites == {i \in InviteIds : invites[i].st = "absent" /\ \A r \in InFlight : ~(r.op = "createInvite" /\ r.id = i)}
Lowest(S) == CHOOSE x \in S : \A y \in S : x <= y

Init ==
  /\ guilds = [g \in GuildIds |-> NoGuild("absent")]
  /\ channels = [c \in ChannelIds |-> NoChannel("absent")]
  /\ messages = [m \in MessageIds |-> NoMessage("absent")]
  /\ conversations = [c \in ConversationIds |-> NoConversation("absent")]
  /\ sockets = [s \in SocketIds |-> NoSocket]
  /\ invites = [i \in InviteIds |-> NoInvite("absent")]
  /\ reqs = EmptyBag
  /\ now = 0
  /\ resp = NoResp
  /\ events = {}

(***************************************************************************)
(* POST /api/guilds: guild.save() (with the default roles), then the       *)
(* default channel's save.                                                 *)
(***************************************************************************)
CreateGuildBegin(u, name) ==
  /\ CanStart
  /\ FreeGuilds # {} /\ FreeChannels # {}
  /\ LET g == Lowest(FreeGuilds)
         c == Lowest(FreeChannels)
     IN /\ guilds' = [guilds EXCEPT ![g] =
               preSave([st |-> "live", name |-> GuildNames[name], owner |-> u,
                        members |-> SetToBag({u}), roles |-> <<>>])]
        /\ reqs' = Started(Req("createGuild", u, "saveChannel", c, g, NoString, 0, 0))
  /\ resp' = NoResp /\ events' = {}
  /\ UNCHANGED <<channels, messages, invites, conversations, sockets, now>>

CreateGuildSaveChannel(r) ==
  /\ r \in At("createGuild", "saveChannel")
  /\ channels' = [channels EXCEPT ![r.id] = [st |-> "live", guild |-> r.g, name |-> "general"]]
  /\ Succeed(r, {})
  /\ UNCHANGED <<guilds, messages, invites, conversations, sockets, now>>

(***************************************************************************)
(* POST /api/invites/guilds/:guildId                                       *)
(***************************************************************************)
CreateInviteBegin(u, g) ==
  /\ CanStart
  /\ UNCHANGED <<store, sockets, now>>
  /\ LET guild == guilds[g] IN
     IF ~Live(guild) THEN
       Answer("createInvite", u, 0, g, "NotFound", "guild") /\ UNCHANGED reqs
     ELSE IF ~Includes(guild.members, u) THEN
       Answer("createInvite", u, 0, g, "Forbidden", "notMember") /\ UNCHANGED reqs
     ELSE IF ~canCreateInvites(guild, u) THEN
       Answer("createInvite", u, 0, g, "Forbidden", "noPermission") /\ UNCHANGED reqs
     ELSE
       /\ FreeInvites # {}
       /\ reqs' = Started(Req("createInvite", u, "save", Lowest(FreeInvites), g, NoString, now, 0))
       /\ resp' = NoResp /\ events' = {}

CreateInviteSave(r) ==
  /\ r \in At("createInvite", "save")
  /\ invites' = [invites EXCEPT ![r.id] = inviteSchema(r.g, r.user, r.n)]
  /\ Succeed(r, {})
  /\ UNCHANGED <<guilds, channels, messages, conversations, sockets, now>>

(***************************************************************************)
(* POST /api/invites/join                                                  *)
(***************************************************************************)
\* Mutant: the last role named @everyone is taken.
EveryoneIndex_Last(guild) ==
  IF \E i \in DOMAIN guild.roles : guild.roles[i].name = "@everyone"
  THEN CHOOSE i \in DOMAIN guild.roles :
         /\ guild.roles[i].name = "@everyone"
         /\ \A j \in DOMAIN guild.roles : guild.roles[j].name = "@everyone" => j <= i
  ELSE 0

EveryoneIndex(guild) ==
  IF \E i \in DOMAIN guild.roles : guild.roles[i].name = "@everyone"
  THEN Lowest({i \in DOMAIN guild.roles : guild.roles[i].name = "@everyone"})
  ELSE 0

\* The update guild.save() sends for the two pushes: one atomic update of the
\* guild document.
SaveJoinedGuild(guild, u, k) ==
  [guild EXCEPT
     !.members = Push(@, u),
     !.roles = [i \in DOMAIN @ |-> IF i = k THEN [@[i] EXCEPT !.members = Push(@, u)] ELSE @[i]]]

\* Mutant: the counter is incremented in the Store ($inc) instead of being set.
SaveUsedInvite_Inc(invite, snapshotUses) == [invite EXCEPT !.uses = @ + 1]

\* invite.uses += 1 on the document read earlier; save() sets the field.
SaveUsedInvite(invite, snapshotUses) == [invite EXCEPT !.uses = snapshotUses + 1]

\* Mutant: the exhausted check comes before the expiry check.
JoinBegin_ExhaustedFirst(u, code) ==
  /\ CanStart
  /\ UNCHANGED <<store, sockets, now>>
  /\ LET invite == invites[code] IN
     IF ~Live(invite) THEN
       Answer("join", u, code, 0, "NotFound", "invite") /\ UNCHANGED reqs
     ELSE IF isMaxUsesReached(invite) THEN
       Answer("join", u, code, invite.guild, "BadRequest", "exhausted") /\ UNCHANGED reqs
     ELSE IF isExpired(invite, now) THEN
       Answer("join", u, code, invite.guild, "BadRequest", "expired") /\ UNCHANGED reqs
     ELSE
       /\ invite.uses < MaxJoins
       /\ reqs' = Started(Req("join", u, "findGuild", code, invite.guild, NoString, invite.uses, 0))
       /\ resp' = NoResp /\ events' = {}

JoinBegin(u, code) ==
  /\ CanStart
  /\ UNCHANGED <<store, sockets, now>>
  /\ LET invite == invites[code] IN
     IF ~Live(invite) THEN
       Answer("join", u, code, 0, "NotFound", "invite") /\ UNCHANGED reqs
     ELSE IF isExpired(invite, now) THEN
       Answer("join", u, code, invite.guild, "BadRequest", "expired") /\ UNCHANGED reqs
     ELSE IF isMaxUsesReached(invite) THEN
       Answer("join", u, code, invite.guild, "BadRequest", "exhausted") /\ UNCHANGED reqs
     ELSE
       /\ invite.uses < MaxJoins
       /\ reqs' = Started(Req("join", u, "findGuild", code, invite.guild, NoString, invite.uses, 0))
       /\ resp' = NoResp /\ events' = {}

\* Mutant: the user is pushed to guild.members and saved before the membership
\* check.
JoinFindGuild_PushFirst(r) ==
  /\ r \in At("join", "findGuild")
  /\ UNCHANGED <<channels, messages, invites, conversations, sockets, now>>
  /\ LET guild == guilds[r.g] IN
     IF ~Live(guild) THEN Fail(r, "NotFound", "guild") /\ UNCHANGED guilds
     ELSE IF Includes(guild.members, r.user) THEN
       /\ guilds' = [guilds EXCEPT ![r.g] = SaveJoinedGuild(@, r.user, EveryoneIndex(guild))]
       /\ Fail(r, "BadRequest", "alreadyMember")
     ELSE
       /\ GoOn(r, [r EXCEPT !.pc = "saveGuild", !.k = EveryoneIndex(guild)])
       /\ UNCHANGED guilds

JoinFindGuild(r) ==
  /\ r \in At("join", "findGuild")
  /\ UNCHANGED <<store, sockets, now>>
  /\ LET guild == guilds[r.g] IN
     IF ~Live(guild) THEN Fail(r, "NotFound", "guild")
     ELSE IF Includes(guild.members, r.user) THEN Fail(r, "BadRequest", "alreadyMember")
     ELSE GoOn(r, [r EXCEPT !.pc = "saveGuild", !.k = EveryoneIndex(guild)])

JoinSaveGuild(r) ==
  /\ r \in At("join", "saveGuild")
  /\ UNCHANGED <<channels, messages, invites, conversations, sockets, now>>
  /\ IF ~Live(guilds[r.g]) THEN
       Fail(r, "ServerError", "save") /\ UNCHANGED guilds
     ELSE
       /\ guilds' = [guilds EXCEPT ![r.g] = SaveJoinedGuild(@, r.user, r.k)]
       /\ GoOn(r, [r EXCEPT !.pc = "saveInvite"])

JoinSaveInvite(r) ==
  /\ r \in At("join", "saveInvite")
  /\ UNCHANGED <<guilds, channels, messages, conversations, sockets, now>>
  /\ IF ~Live(invites[r.id]) THEN
       Fail(r, "ServerError", "save") /\ UNCHANGED invites
     ELSE
       /\ invites' = [invites EXCEPT ![r.id] = SaveUsedInvite(@, r.n)]
       /\ Succeed(r, {Event("memberJoin", GuildRoom(r.g))})

(***************************************************************************)
(* DELETE /api/guilds/:id/members/:userId                                  *)
(***************************************************************************)
KickBegin(u, g, userId) ==
  /\ CanStart
  /\ UNCHANGED <<store, sockets, now>>
  /\ LET guild == guilds[g] IN
     IF ~Live(guild) THEN
       Answer("kick", u, 0, g, "NotFound", "guild") /\ UNCHANGED reqs
     ELSE IF ~canKickMembers(guild, u) THEN
       Answer("kick", u, 0, g, "Forbidden", "noPermission") /\ UNCHANGED reqs
     ELSE IF toString(guild.owner) = userId THEN
       Answer("kick", u, 0, g, "Forbidden", "owner") /\ UNCHANGED reqs
     ELSE
       /\ reqs' = Started(Req("kick", u, "pullMembers", 0, g, userId, 0, 0))
       /\ resp' = NoResp /\ events' = {}

KickPullMembers(r) ==
  /\ r \in At("kick", "pullMembers")
  /\ guilds' = [guilds EXCEPT ![r.g] =
       IF Live(@) THEN [@ EXCEPT !.members = Pull(@, CastObjectId(r.tgt))] ELSE @]
  /\ GoOn(r, [r EXCEPT !.pc = "pullRoles"])
  /\ UNCHANGED <<channels, messages, invites, conversations, sockets, now>>

KickPullRoles(r) ==
  /\ r \in At("kick", "pullRoles")
  /\ guilds' = [guilds EXCEPT ![r.g] =
       IF Live(@)
       THEN [@ EXCEPT !.roles = [i \in DOMAIN @ |-> [@[i] EXCEPT !.members = Pull(@, CastObjectId(r.tgt))]]]
       ELSE @]
  /\ Succeed(r, {Event("memberRemove", GuildRoom(r.g)), Event("kickedFromGuild", UserRoom(r.tgt))})
  /\ UNCHANGED <<channels, messages, invites, conversations, sockets, now>>

(***************************************************************************)
(* DELETE /api/invites/:id                                                 *)
(***************************************************************************)
DeleteInviteBegin(u, id) ==
  /\ CanStart
  /\ UNCHANGED <<store, sockets, now>>
  /\ LET invite == invites[id] IN
     IF ~Live(invite) THEN
       Answer("deleteInvite", u, id, 0, "NotFound", "invite") /\ UNCHANGED reqs
     ELSE IF ~Live(guilds[invite.guild]) THEN
       \* guild is null: reading guild.owner throws
       Answer("deleteInvite", u, id, invite.guild, "ServerError", "guild") /\ UNCHANGED reqs
     ELSE IF ~canManageGuild(guilds[invite.guild], u) /\ ~(invite.creator = u) THEN
       Answer("deleteInvite", u, id, invite.guild, "Forbidden", "noPermission") /\ UNCHANGED reqs
     ELSE
       /\ reqs' = Started(Req("deleteInvite", u, "delete", id, invite.guild, NoString, 0, 0))
       /\ resp' = NoResp /\ events' = {}

DeleteInviteDelete(r) ==
  /\ r \in At("deleteInvite", "delete")
  /\ invites' = [invites EXCEPT ![r.id] = IF Live(@) THEN NoInvite("deleted") ELSE @]
  /\ Succeed(r, {})
  /\ UNCHANGED <<guilds, channels, messages, conversations, sockets, now>>

(***************************************************************************)
(* PUT /api/guilds/:id                                                     *)
(***************************************************************************)
UpdateGuildBegin(u, g, name) ==
  /\ CanStart
  /\ UNCHANGED <<store, sockets, now>>
  /\ LET guild == guilds[g] IN
     IF ~Live(guild) THEN
       Answer("updateGuild", u, 0, g, "NotFound", "guild") /\ UNCHANGED reqs
     ELSE IF toString(guild.owner) # toString(u) THEN
       Answer("updateGuild", u, 0, g, "Forbidden", "notOwner") /\ UNCHANGED reqs
     ELSE
       /\ reqs' = Started(Req("updateGuild", u, "update", 0, g, NoString, name, 0))
       /\ resp' = NoResp /\ events' = {}

\* findByIdAndUpdate gives null for a guild deleted meanwhile: the handler
\* emits and answers all the same.
UpdateGuildUpdate(r) ==
  /\ r \in At("updateGuild", "update")
  /\ guilds' = [guilds EXCEPT ![r.g] = IF Live(@) THEN [@ EXCEPT !.name = GuildNames[r.n]] ELSE @]
  /\ Succeed(r, {Event("guildUpdate", GuildRoom(r.g))})
  /\ UNCHANGED <<channels, messages, invites, conversations, sockets, now>>

(***************************************************************************)
(* DELETE /api/guilds/:id                                                  *)
(***************************************************************************)
DeleteGuildBegin(u, g) ==
  /\ CanStart
  /\ UNCHANGED <<store, sockets, now>>
  /\ LET guild == guilds[g] IN
     IF ~Live(guild) THEN
       Answer("deleteGuild", u, 0, g, "NotFound", "guild") /\ UNCHANGED reqs
     ELSE IF toString(guild.owner) # toString(u) THEN
       Answer("deleteGuild", u, 0, g, "Forbidden", "notOwner") /\ UNCHANGED reqs
     ELSE
       /\ reqs' = Started(Req("deleteGuild", u, "deleteChannels", 0, g, NoString, 0, 0))
       /\ resp' = NoResp /\ events' = {}

DeleteGuildChannels(r) ==
  /\ r \in At("deleteGuild", "deleteChannels")
  /\ channels' = [c \in ChannelIds |->
       IF Live(channels[c]) /\ channels[c].guild = r.g THEN NoChannel("deleted") ELSE channels[c]]
  /\ GoOn(r, [r EXCEPT !.pc = "deleteGuild"])
  /\ UNCHANGED <<guilds, messages, invites, conversations, sockets, now>>

DeleteGuildDelete(r) ==
  /\ r \in At("deleteGuild", "deleteGuild")
  /\ guilds' = [guilds EXCEPT ![r.g] = IF Live(@) THEN NoGuild("deleted") ELSE @]
  /\ Succeed(r, {Event("guildDelete", GuildRoom(r.g))})
  /\ UNCHANGED <<channels, messages, invites, conversations, sockets, now>>

(***************************************************************************)
(* POST /api/channels/:id/messages                                         *)
(***************************************************************************)
\* Mutant: the membership test of the post is left out.
PostMessageBegin_NoMemberCheck(u, c) ==
  /\ CanStart
  /\ UNCHANGED <<store, sockets, now>>
  /\ LET channel == channels[c] IN
     IF ~Live(channel) THEN
       Answer("postMessage", u, c, 0, "NotFound", "channel") /\ UNCHANGED reqs
     ELSE IF ~Live(guilds[channel.guild]) THEN
       Answer("postMessage", u, c, channel.guild, "ServerError", "guild") /\ UNCHANGED reqs
     ELSE IF ~canSendMessages(guilds[channel.guild], u) THEN
       Answer("postMessage", u, c, channel.guild, "Forbidden", "noPermission") /\ UNCHANGED reqs
     ELSE
       /\ FreeMessages # {}
       /\ reqs' = Started(Req("postMessage", u, "save", c, channel.guild, NoString, Lowest(FreeMessages), 0))
       /\ resp' = NoResp /\ events' = {}

PostMessageBegin(u, c) ==
  /\ CanStart
  /\ UNCHANGED <<store, sockets, now>>
  /\ LET channel == channels[c] IN
     IF ~Live(channel) THEN
       Answer("postMessage", u, c, 0, "NotFound", "channel") /\ UNCHANGED reqs
     ELSE IF ~Live(guilds[channel.guild]) THEN
       \* guild is null: reading guild.members throws
       Answer("postMessage", u, c, channel.guild, "ServerError", "guild") /\ UNCHANGED reqs
     ELSE IF ~Includes(guilds[channel.guild].members, u) THEN
       Answer("postMessage", u, c, channel.guild, "Forbidden", "notMember") /\ UNCHANGED reqs
     ELSE IF ~canSendMessages(guilds[channel.guild], u) THEN
       Answer("postMessage", u, c, channel.guild, "Forbidden", "noPermission") /\ UNCHANGED reqs
     ELSE
       /\ FreeMessages # {}
       /\ reqs' = Started(Req("postMessage", u, "save", c, channel.guild, NoString, Lowest(FreeMessages), 0))
       /\ resp' = NoResp /\ events' = {}

PostMessageSave(r) ==
  /\ r \in At("postMessage", "save")
  /\ messages' = [messages EXCEPT ![r.n] = [st |-> "live", author |-> r.user, channel |-> r.id, conversationId |-> 0, content |-> Contents[1]]]
  /\ Succeed(r, {Event("newMessage", ChannelRoom(r.id))})
  /\ UNCHANGED <<guilds, channels, invites, conversations, sockets, now>>

(***************************************************************************)
(* POST /api/guilds/:id/channels                                           *)
(***************************************************************************)
CreateChannelBegin(u, g, name) ==
  /\ CanStart
  /\ UNCHANGED <<store, sockets, now>>
  /\ LET guild == guilds[g] IN
     IF ~Live(guild) THEN
       Answer("createChannel", u, 0, g, "NotFound", "guild") /\ UNCHANGED reqs
     ELSE IF ~canManageChannels(guild, u) THEN
       Answer("createChannel", u, 0, g, "Forbidden", "noPermission") /\ UNCHANGED reqs
     ELSE
       /\ FreeChannels # {}
       /\ reqs' = Started(Req("createChannel", u, "save", Lowest(FreeChannels), g, NoString, name, 0))
       /\ resp' = NoResp /\ events' = {}

CreateChannelSave(r) ==
  /\ r \in At("createChannel", "save")
  /\ channels' = [channels EXCEPT ![r.id] = [st |-> "live", guild |-> r.g, name |-> ChannelNames[r.n]]]
  /\ Succeed(r, {Event("newChannel", GuildRoom(r.g))})
  /\ UNCHANGED <<guilds, messages, invites, conversations, sockets, now>>

(***************************************************************************)
(* PUT /api/channels/:id                                                   *)
(***************************************************************************)
UpdateChannelBegin(u, c, name) ==
  /\ CanStart
  /\ UNCHANGED <<store, sockets, now>>
  /\ LET channel == channels[c] IN
     IF ~Live(channel) THEN
       Answer("updateChannel", u, c, 0, "NotFound", "channel") /\ UNCHANGED reqs
     ELSE IF ~Live(guilds[channel.guild]) THEN
       \* guild is null: reading guild.owner throws
       Answer("updateChannel", u, c, channel.guild, "ServerError", "guild") /\ UNCHANGED reqs
     ELSE IF ~canManageChannels(guilds[channel.guild], u) THEN
       Answer("updateChannel", u, c, channel.guild, "Forbidden", "noPermission") /\ UNCHANGED reqs
     ELSE
       /\ reqs' = Started(Req("updateChannel", u, "update", c, channel.guild, NoString, name, 0))
       /\ resp' = NoResp /\ events' = {}

\* findByIdAndUpdate gives null for a channel deleted meanwhile: the handler
\* then emits to the channel room and throws on channel.guild.
UpdateChannelUpdate(r) ==
  /\ r \in At("updateChannel", "update")
  /\ UNCHANGED <<guilds, messages, invites, conversations, sockets, now>>
  /\ IF Live(channels[r.id]) THEN
       /\ channels' = [channels EXCEPT ![r.id].name = ChannelNames[r.n]]
       /\ Succeed(r, {Event("channelUpdate", ChannelRoom(r.id)),
                      Event("channelUpdate", GuildRoom(channels[r.id].guild))})
     ELSE
       /\ UNCHANGED channels
       /\ reqs' = Finished(r)
       /\ resp' = Response(r.op, r.user, r.id, r.g, "ServerError", "channel")
       /\ events' = {Event("channelUpdate", ChannelRoom(r.id))}

(***************************************************************************)
(* DELETE /api/channels/:id                                                *)
(***************************************************************************)
ChannelCount(g) == Cardinality({c \in ChannelIds : Live(channels[c]) /\ channels[c].guild = g})

\* Mutant: the last-channel check lets a count of 1 through.
IsLastChannel_OffByOne(channelCount) == channelCount < 1

IsLastChannel(channelCount) == channelCount <= 1

DeleteChannelBegin(u, c) ==
  /\ CanStart
  /\ UNCHANGED <<store, sockets, now>>
  /\ LET channel == channels[c] IN
     IF ~Live(channel) THEN
       Answer("deleteChannel", u, c, 0, "NotFound", "channel") /\ UNCHANGED reqs
     ELSE IF ~Live(guilds[channel.guild]) THEN
       \* guild is null: reading guild.owner throws
       Answer("deleteChannel", u, c, channel.guild, "ServerError", "guild") /\ UNCHANGED reqs
     ELSE IF ~canManageChannels(guilds[channel.guild], u) THEN
       Answer("deleteChannel", u, c, channel.guild, "Forbidden", "noPermission") /\ UNCHANGED reqs
     ELSE
       /\ reqs' = Started(Req("deleteChannel", u, "count", c, channel.guild, NoString, 0, 0))
       /\ resp' = NoResp /\ events' = {}

DeleteChannelCount(r) ==
  /\ r \in At("deleteChannel", "count")
  /\ UNCHANGED <<store, sockets, now>>
  /\ IF IsLastChannel(ChannelCount(r.g))
     THEN Fail(r, "BadRequest", "lastChannel")
     ELSE GoOn(r, [r EXCEPT !.pc = "deleteMessages"])

DeleteChannelMessages(r) ==
  /\ r \in At("deleteChannel", "deleteMessages")
  /\ messages' = [m \in MessageIds |->
       IF Live(messages[m]) /\ messages[m].channel = r.id THEN NoMessage("deleted") ELSE messages[m]]
  /\ GoOn(r, [r EXCEPT !.pc = "deleteChannel"])
  /\ UNCHANGED <<guilds, channels, invites, conversations, sockets, now>>

DeleteChannelDelete(r) ==
  /\ r \in At("deleteChannel", "deleteChannel")
  /\ channels' = [channels EXCEPT ![r.id] = IF Live(@) THEN NoChannel("deleted") ELSE @]
  /\ Succeed(r, {Event("channelDelete", ChannelRoom(r.id)), Event("channelDelete", GuildRoom(r.g))})
  /\ UNCHANGED <<guilds, messages, invites, conversations, sockets, now>>

(***************************************************************************)
(* PUT /api/messages/:id                                                   *)
(***************************************************************************)
\* Mutant: the edit accepts whoever may moderate the channel's guild.
EditMessageBegin_Moderators(u, m, content) ==
  /\ CanStart
  /\ UNCHANGED <<store, sockets, now>>
  /\ LET message == messages[m] IN
     IF ~Live(message) THEN
       Answer("editMessage", u, m, 0, "NotFound", "message") /\ UNCHANGED reqs
     ELSE IF /\ toString(message.author) # toString(u)
             /\ ~(/\ message.channel # 0
                  /\ Live(channels[message.channel])
                  /\ Live(guilds[channels[message.channel].guild])
                  /\ canManageMessages(guilds[channels[message.channel].guild], u)) THEN
       Answer("editMessage", u, m, 0, "Forbidden", "notAuthor") /\ UNCHANGED reqs
     ELSE
       /\ reqs' = Started(Req("editMessage", u, "update", m, 0, NoString, message.channel, content))
       /\ resp' = NoResp /\ events' = {}

EditMessageBegin(u, m, content) ==
  /\ CanStart
  /\ UNCHANGED <<store, sockets, now>>
  /\ LET message == messages[m] IN
     IF ~Live(message) THEN
       Answer("editMessage", u, m, 0, "NotFound", "message") /\ UNCHANGED reqs
     ELSE IF toString(message.author) # toString(u) THEN
       Answer("editMessage", u, m, 0, "Forbidden", "notAuthor") /\ UNCHANGED reqs
     ELSE
       /\ reqs' = Started(Req("editMessage", u, "update", m, 0, NoString, message.channel, content))
       /\ resp' = NoResp /\ events' = {}

\* findByIdAndUpdate gives null for a message deleted meanwhile: reading
\* message.channel then throws.
EditMessageUpdate(r) ==
  /\ r \in At("editMessage", "update")
  /\ UNCHANGED <<guilds, channels, invites, conversations, sockets, now>>
  /\ IF Live(messages[r.id]) THEN
       /\ messages' = [messages EXCEPT ![r.id].content = Contents[r.k]]
       /\ Succeed(r, IF r.n # 0 THEN {Event("messageUpdate", ChannelRoom(r.n))}
                      ELSE IF messages[r.id].conversationId # 0
                        THEN {Event("messageUpdate", ConversationRoom(messages[r.id].conversationId))}
                      ELSE {})
     ELSE
       /\ UNCHANGED messages
       /\ Fail(r, "ServerError", "message")

(***************************************************************************)
(* DELETE /api/messages/:id                                                *)
(***************************************************************************)
DeleteMessageBegin(u, m) ==
  /\ CanStart
  /\ UNCHANGED <<store, sockets, now>>
  /\ LET message == messages[m]
         isAuthor == toString(message.author) = toString(u)
     IN
     IF ~Live(message) THEN
       Answer("deleteMessage", u, m, 0, "NotFound", "message") /\ UNCHANGED reqs
     ELSE IF ~isAuthor /\ message.channel # 0 /\ ~Live(channels[message.channel]) THEN
       \* channel is null: reading channel.guild throws
       Answer("deleteMessage", u, m, 0, "ServerError", "channel") /\ UNCHANGED reqs
     ELSE IF ~isAuthor /\ message.channel # 0 /\ ~Live(guilds[channels[message.channel].guild]) THEN
       Answer("deleteMessage", u, m, channels[message.channel].guild, "ServerError", "guild") /\ UNCHANGED reqs
     ELSE IF ~isAuthor /\ message.channel # 0
               /\ ~canManageMessages(guilds[channels[message.channel].guild], u) THEN
       Answer("deleteMessage", u, m, channels[message.channel].guild, "Forbidden", "noPermission")
         /\ UNCHANGED reqs
     ELSE IF ~isAuthor /\ message.channel = 0 THEN
       Answer("deleteMessage", u, m, 0, "Forbidden", "notAuthor") /\ UNCHANGED reqs
     ELSE
       /\ reqs' = Started(Req("deleteMessage", u, "delete", m, 0, NoString, message.channel,
                                message.conversationId))
       /\ resp' = NoResp /\ events' = {}

DeleteMessageDelete(r) ==
  /\ r \in At("deleteMessage", "delete")
  /\ messages' = [messages EXCEPT ![r.id] = IF Live(@) THEN NoMessage("deleted") ELSE @]
  /\ Succeed(r, IF r.n # 0 THEN {Event("messageDelete", ChannelRoom(r.n))}
                 ELSE IF r.k # 0 THEN {Event("messageDelete", ConversationRoom(r.k))}
                 ELSE {})
  /\ UNCHANGED <<guilds, channels, invites, conversations, sockets, now>>

(***************************************************************************)
(* POST /api/guilds/:id/roles                                              *)
(***************************************************************************)
CreateRoleBegin(u, g, body) ==
  /\ CanStart
  /\ UNCHANGED <<store, sockets, now>>
  /\ LET guild == guilds[g] IN
     IF ~Live(guild) THEN
       Answer("createRole", u, 0, g, "NotFound", "guild") /\ UNCHANGED reqs
     ELSE IF ~canManageRoles(guild, u) THEN
       Answer("createRole", u, 0, g, "Forbidden", "noPermission") /\ UNCHANGED reqs
     ELSE
       /\ Len(guild.roles) + Cardinality({r \in InFlight : r.op = "createRole" /\ r.g = g}) < MaxRoles
       /\ reqs' = Started(Req("createRole", u, "save", 0, g, NoString, body, 0))
       /\ resp' = NoResp /\ events' = {}

\* guild.roles.push(newRole); guild.save(): one $push on the guild document.
CreateRoleSave(r) ==
  /\ r \in At("createRole", "save")
  /\ UNCHANGED <<channels, messages, invites, conversations, sockets, now>>
  /\ IF ~Live(guilds[r.g]) THEN
       Fail(r, "ServerError", "save") /\ UNCHANGED guilds
     ELSE
       /\ guilds' = [guilds EXCEPT ![r.g].roles =
            Append(@, [name |-> RoleBodies[r.n].name,
                       permissions |-> RoleBodies[r.n].permissions,
                       members |-> EmptyBag])]
       /\ Succeed(r, {Event("newRole", GuildRoom(r.g))})

(***************************************************************************)
(* GET /api/invites/guilds/:guildId                                        *)
(***************************************************************************)
ListInvites(u, g) ==
  /\ CanStart
  /\ UNCHANGED <<store, sockets, now, reqs>>
  /\ LET guild == guilds[g] IN
     IF ~Live(guild) THEN Answer("listInvites", u, 0, g, "NotFound", "guild")
     ELSE IF ~Includes(guild.members, u) THEN Answer("listInvites", u, 0, g, "Forbidden", "notMember")
     ELSE IF ~canManageGuild(guild, u) THEN Answer("listInvites", u, 0, g, "Forbidden", "noPermission")
     ELSE Answer("listInvites", u, 0, g, "OK", "-")

(***************************************************************************)
(* Time passes.                                                            *)
(***************************************************************************)
Tick ==
  /\ now < MaxTime
  /\ now' = now + 1
  /\ resp' = NoResp /\ events' = {}
  /\ UNCHANGED <<store, sockets, reqs>>

(***************************************************************************)
(* POST /api/conversations                                                 *)
(***************************************************************************)
\* The recipient of the request body: a string that isMongoId accepts.
Recipients_Body == IdStrings \cup {[id |-> NoUser, canon |-> TRUE]}
FreeConversations ==
  {c \in ConversationIds :
     conversations[c].st = "absent" /\ \A r \in InFlight : ~(r.op = "createConversation" /\ r.id = c)}

\* The elements of an array.
Elements(seq) == {seq[i] : i \in DOMAIN seq}
\* Conversation.findOne({participants: {$all: [userId, recipient]}}): the
\* documents whose participants hold both ids.
FindByParticipants(u, v) ==
  {c \in ConversationIds : Live(conversations[c]) /\ {u, v} \subseteq Elements(conversations[c].participants)}

CreateConversationBegin(u, recipient) ==
  /\ CanStart
  /\ FreeConversations # {}
  /\ UNCHANGED <<store, sockets, now>>
  /\ IF CastObjectId(recipient) \notin Users THEN
       Answer("createConversation", u, 0, 0, "NotFound", "recipient") /\ UNCHANGED reqs
     ELSE IF FindByParticipants(u, CastObjectId(recipient)) # {} THEN
       \E c \in FindByParticipants(u, CastObjectId(recipient)) :
         Answer("createConversation", u, c, 0, "OK", "existing") /\ UNCHANGED reqs
     ELSE
       /\ reqs' = Started(Req("createConversation", u, "save", Lowest(FreeConversations), 0,
                              recipient, 0, 0))
       /\ resp' = NoResp /\ events' = {}

CreateConversationSave(r) ==
  /\ r \in At("createConversation", "save")
  /\ conversations' = [conversations EXCEPT ![r.id] =
       [st |-> "live", participants |-> <<r.user, CastObjectId(r.tgt)>>, creator |-> r.user,
        lastMessage |-> 0]]
  /\ Succeed(r, {Event("newConversation", UserRoom(r.tgt))})
  /\ UNCHANGED <<guilds, channels, messages, invites, sockets, now>>

(***************************************************************************)
(* POST /api/conversations/:id/messages                                    *)
(***************************************************************************)
\* Mutant: the message names a channel as well.
ConversationMessage_Both(u, c) ==
  [st |-> "live", author |-> u, channel |-> 1, conversationId |-> c, content |-> Contents[1]]

\* new Message({content, author: userId, conversationId})
ConversationMessage(u, c) ==
  [st |-> "live", author |-> u, channel |-> 0, conversationId |-> c, content |-> Contents[1]]

SendMessageBegin(u, c) ==
  /\ CanStart
  /\ FreeMessages # {}
  /\ UNCHANGED <<store, sockets, now>>
  /\ LET conversation == conversations[c] IN
     IF ~Live(conversation) THEN
       Answer("sendMessage", u, c, 0, "NotFound", "conversation") /\ UNCHANGED reqs
     ELSE IF u \notin Elements(conversation.participants) THEN
       Answer("sendMessage", u, c, 0, "Forbidden", "notParticipant") /\ UNCHANGED reqs
     ELSE
       /\ reqs' = Started(Req("sendMessage", u, "saveMessage", c, 0, NoString, Lowest(FreeMessages), 0))
       /\ resp' = NoResp /\ events' = {}

SendMessageSaveMessage(r) ==
  /\ r \in At("sendMessage", "saveMessage")
  /\ messages' = [messages EXCEPT ![r.n] = ConversationMessage(r.user, r.id)]
  /\ GoOn(r, [r EXCEPT !.pc = "saveConversation"])
  /\ UNCHANGED <<guilds, channels, invites, conversations, sockets, now>>

\* Mutant: the message is published to the conversation's room only.
SendMessageEvents_RoomOnly(c) == {Event("newMessage", ConversationRoom(c))}

\* participants.forEach(io.to(`user:${participantId}`).emit) and
\* io.to(`conversation:${conversationId}`).emit
SendMessageEvents(c) ==
  {Event("newMessage", UserRoom(toString(p))) : p \in Elements(conversations[c].participants)}
    \cup {Event("newMessage", ConversationRoom(c))}

SendMessageSaveConversation(r) ==
  /\ r \in At("sendMessage", "saveConversation")
  /\ conversations' = [conversations EXCEPT ![r.id].lastMessage = r.n]
  /\ Succeed(r, SendMessageEvents(r.id))
  /\ UNCHANGED <<guilds, channels, messages, invites, sockets, now>>

(***************************************************************************)
(* Sockets.  io.use runs before a connection is accepted: a handshake      *)
(* whose token is missing, does not verify or names no user is refused,    *)
(* and the 'connection' callback, which joins the user's room and          *)
(* registers the command handlers, never runs for it.  A room is a set of  *)
(* socket ids in the adapter: join adds to it, leave removes from it, and  *)
(* closing a socket leaves every room before 'disconnect' is emitted.      *)
(***************************************************************************)
\* The handshake's token: absent, one that jwt.verify rejects, or one signed
\* for an id (that of a user, or one that names no user any more).
Tokens == {NoToken, [kind |-> "invalid", id |-> "-"]} \cup [kind : {"signed"}, id : Users \cup {NoUser}]
Null == "-"

authenticateSocket(token) ==
  IF token.kind = "missing" THEN Null
  ELSE IF token.kind = "invalid" THEN Null
  ELSE IF token.id \notin Users THEN Null
  ELSE token.id

\* Mutant: the middleware lets every handshake through.
Refused_Never(token) == FALSE

\* io.use: next(new Error(...)) on a missing token or a null user.
Refused(token) == token.kind = "missing" \/ authenticateSocket(token) = Null

\* Mutant: join toggles the membership.
join_Toggle(rooms, room) == IF room \in rooms THEN rooms \ {room} ELSE rooms \cup {room}

join(rooms, room) == rooms \cup {room}
leave(rooms, room) == rooms \ {room}
\* Mutant: a closed socket keeps its rooms.
leaveAll_Keep(rooms) == rooms

leaveAll(rooms) == {}
\* Mutant: the connection callback also joins the first guild's room.
OnConnection_JoinGuild(user) == {UserRoom(toString(user)), GuildRoom(1)}

\* io.on('connection'): socket.join(`user:${socket.user._id}`)
OnConnection(user) == join({}, UserRoom(toString(user)))

Connected(s) == sockets[s].st = "connected"
\* Mutant: a broadcast to a room of a guild or of a channel reaches the
\* sockets of the guild's members only.
Recipients_Members(room) ==
  {s \in SocketIds :
     /\ Connected(s) /\ room \in sockets[s].rooms
     /\ room.kind = "guild" => Includes(guilds[room.id].members, sockets[s].user)
     /\ room.kind = "channel" => Includes(guilds[channels[room.id].guild].members, sockets[s].user)}

\* Mutant: a broadcast reaches every connected socket.
Recipients_All(room) == {s \in SocketIds : Connected(s)}

\* io.to(room).emit: the sockets the adapter holds under the room's key.
Recipients(room) == {s \in SocketIds : Connected(s) /\ room \in sockets[s].rooms}

Quiet == resp' = NoResp /\ events' = {} /\ UNCHANGED <<store, reqs, now>>

Connect(s, token) ==
  /\ sockets[s].st = "none"
  /\ sockets' = [sockets EXCEPT ![s] =
       IF Refused(token)
       THEN [st |-> "refused", token |-> token, user |-> "-", rooms |-> {}]
       ELSE [st |-> "connected", token |-> token, user |-> authenticateSocket(token),
             rooms |-> OnConnection(authenticateSocket(token))]]
  /\ Quiet

Disconnect(s) ==
  /\ Connected(s)
  /\ sockets' = [sockets EXCEPT ![s].st = "disconnected", ![s].rooms = leaveAll(@)]
  /\ Quiet

joinGuild(s, g) ==
  /\ Connected(s)
  /\ sockets' = [sockets EXCEPT ![s].rooms = join(@, GuildRoom(g))]
  /\ Quiet

leaveGuild(s, g) ==
  /\ Connected(s)
  /\ sockets' = [sockets EXCEPT ![s].rooms = leave(@, GuildRoom(g))]
  /\ Quiet

joinChannel(s, c) ==
  /\ Connected(s)
  /\ sockets' = [sockets EXCEPT ![s].rooms = join(@, ChannelRoom(c))]
  /\ Quiet

leaveChannel(s, c) ==
  /\ Connected(s)
  /\ sockets' = [sockets EXCEPT ![s].rooms = leave(@, ChannelRoom(c))]
  /\ Quiet

joinConversation(s, c) ==
  /\ Connected(s)
  /\ sockets' = [sockets EXCEPT ![s].rooms = join(@, ConversationRoom(c))]
  /\ Quiet

leaveConversation(s, c) ==
  /\ Connected(s)
  /\ sockets' = [sockets EXCEPT ![s].rooms = leave(@, ConversationRoom(c))]
  /\ Quiet

Next ==
  \/ \E u \in Users, n \in DOMAIN GuildNames : CreateGuildBegin(u, n)
  \/ \E r \in InFlight : CreateGuildSaveChannel(r)
  \/ \E u \in Users, g \in GuildIds : CreateInviteBegin(u, g)
  \/ \E r \in InFlight : CreateInviteSave(r)
  \/ \E u \in Users, code \in InviteIds : JoinBegin(u, code)
  \/ \E r \in InFlight : JoinFindGuild(r)
  \/ \E r \in InFlight : JoinSaveGuild(r)
  \/ \E r \in InFlight : JoinSaveInvite(r)
  \/ \E u \in Users, g \in GuildIds, s \in IdStrings : KickBegin(u, g, s)
  \/ \E r \in InFlight : KickPullMembers(r)
  \/ \E r \in InFlight : KickPullRoles(r)
  \/ \E u \in Users, i \in InviteIds : DeleteInviteBegin(u, i)
  \/ \E r \in InFlight : DeleteInviteDelete(r)
  \/ \E u \in Users, g \in GuildIds : ListInvites(u, g)
  \/ \E u \in Users, g \in GuildIds, n \in DOMAIN GuildNames : UpdateGuildBegin(u, g, n)
  \/ \E r \in InFlight : UpdateGuildUpdate(r)
  \/ \E u \in Users, g \in GuildIds : DeleteGuildBegin(u, g)
  \/ \E r \in InFlight : DeleteGuildChannels(r)
  \/ \E r \in InFlight : DeleteGuildDelete(r)
  \/ \E u \in Users, g \in GuildIds, n \in DOMAIN ChannelNames : CreateChannelBegin(u, g, n)
  \/ \E r \in InFlight : CreateChannelSave(r)
  \/ \E u \in Users, c \in ChannelIds, n \in DOMAIN ChannelNames : UpdateChannelBegin(u, c, n)
  \/ \E r \in InFlight : UpdateChannelUpdate(r)
  \/ \E u \in Users, c \in ChannelIds : DeleteChannelBegin(u, c)
  \/ \E r \in InFlight : DeleteChannelCount(r)
  \/ \E r \in InFlight : DeleteChannelMessages(r)
  \/ \E r \in InFlight : DeleteChannelDelete(r)
  \/ \E u \in Users, c \in ChannelIds : PostMessageBegin(u, c)
  \/ \E r \in InFlight : PostMessageSave(r)
  \/ \E u \in Users, m \in MessageIds, k \in DOMAIN Contents : EditMessageBegin(u, m, k)
  \/ \E r \in InFlight : EditMessageUpdate(r)
  \/ \E u \in Users, m \in MessageIds : DeleteMessageBegin(u, m)
  \/ \E r \in InFlight : DeleteMessageDelete(r)
  \/ \E u \in Users, g \in GuildIds, b \in DOMAIN RoleBodies : CreateRoleBegin(u, g, b)
  \/ \E r \in InFlight : CreateRoleSave(r)
  \/ \E u \in Users, v \in Recipients_Body : CreateConversationBegin(u, v)
  \/ \E r \in InFlight : CreateConversationSave(r)
  \/ \E u \in Users, c \in ConversationIds : SendMessageBegin(u, c)
  \/ \E r \in InFlight : SendMessageSaveMessage(r)
  \/ \E r \in InFlight : SendMessageSaveConversation(r)
  \/ \E s \in SocketIds, t \in Tokens : Connect(s, t)
  \/ \E s \in SocketIds : Disconnect(s)
  \/ \E s \in SocketIds, g \in GuildIds : joinGuild(s, g)
  \/ \E s \in SocketIds, g \in GuildIds : leaveGuild(s, g)
  \/ \E s \in SocketIds, c \in ChannelIds : joinChannel(s, c)
  \/ \E s \in SocketIds, c \in ChannelIds : leaveChannel(s, c)
  \/ \E s \in SocketIds, c \in ConversationIds : joinConversation(s, c)
  \/ \E s \in SocketIds, c \in ConversationIds : leaveConversation(s, c)
  \/ Tick

Spec == Init /\ [][Next]_vars

(***************************************************************************)
(* The invite ledger on its own: the Store holds guild 1 as POST           *)
(* /api/guilds by user A left it, and one invite of that guild.  The       *)
(* invite schema has a maxUses field which no route sets: the invite here  *)
(* is a document of that schema with any maxUses up to MaxUses, made one   *)
(* InviteTTL before the start, so that it expires at the first Tick.       *)
(***************************************************************************)
Owner == "A"

InitLedger ==
  /\ guilds = [g \in GuildIds |->
       IF g = 1
       THEN preSave([st |-> "live", name |-> GuildNames[1], owner |-> Owner, members |-> SetToBag({Owner}), roles |-> <<>>])
       ELSE NoGuild("absent")]
  /\ channels = [c \in ChannelIds |->
       IF c = 1 THEN [st |-> "live", guild |-> 1, name |-> "general"] ELSE NoChannel("absent")]
  /\ messages = [m \in MessageIds |-> NoMessage("absent")]
  /\ conversations = [c \in ConversationIds |-> NoConversation("absent")]
  /\ sockets = [s \in SocketIds |-> NoSocket]
  /\ \E mu \in 0..MaxUses :
       invites = [i \in InviteIds |->
         IF i = 1 THEN [inviteSchema(1, Owner, 0 - InviteTTL) EXCEPT !.maxUses = mu] ELSE NoInvite("absent")]
  /\ reqs = EmptyBag
  /\ now = 0
  /\ resp = NoResp
  /\ events = {}

NextLedger ==
  \/ \E u \in Users, code \in InviteIds : JoinBegin(u, code)
  \/ \E r \in InFlight : JoinFindGuild(r)
  \/ \E r \in InFlight : JoinSaveGuild(r)
  \/ \E r \in InFlight : JoinSaveInvite(r)
  \/ \E u \in Users, g \in GuildIds, s \in IdStrings : KickBegin(u, g, s)
  \/ \E r \in InFlight : KickPullMembers(r)
  \/ \E r \in InFlight : KickPullRoles(r)
  \/ \E u \in Users, i \in InviteIds : DeleteInviteBegin(u, i)
  \/ \E r \in InFlight : DeleteInviteDelete(r)
  \/ \E u \in Users, g \in GuildIds : DeleteGuildBegin(u, g)
  \/ \E r \in InFlight : DeleteGuildChannels(r)
  \/ \E r \in InFlight : DeleteGuildDelete(r)
  \/ Tick

SpecLedger == InitLedger /\ [][NextLedger]_vars

(***************************************************************************)
(* The owner's capabilities: a guild as its owner created it, with one     *)
(* unlimited invite of the owner's, under redeem, kick and the operations  *)
(* that ask for a capability.                                              *)
(***************************************************************************)
InitOwner ==
  /\ guilds = [g \in GuildIds |->
       IF g = 1
       THEN preSave([st |-> "live", name |-> GuildNames[1], owner |-> Owner, members |-> SetToBag({Owner}), roles |-> <<>>])
       ELSE NoGuild("absent")]
  /\ channels = [c \in ChannelIds |->
       IF c = 1 THEN [st |-> "live", guild |-> 1, name |-> "general"] ELSE NoChannel("absent")]
  /\ messages = [m \in MessageIds |-> NoMessage("absent")]
  /\ conversations = [c \in ConversationIds |-> NoConversation("absent")]
  /\ sockets = [s \in SocketIds |-> NoSocket]
  /\ invites = [i \in InviteIds |-> IF i = 1 THEN inviteSchema(1, Owner, 0) ELSE NoInvite("absent")]
  /\ reqs = EmptyBag
  /\ now = 0
  /\ resp = NoResp
  /\ events = {}

NextOwner ==
  \/ \E u \in Users, code \in InviteIds : JoinBegin(u, code)
  \/ \E r \in InFlight : JoinFindGuild(r)
  \/ \E r \in InFlight : JoinSaveGuild(r)
  \/ \E r \in InFlight : JoinSaveInvite(r)
  \/ \E u \in Users, g \in GuildIds, s \in IdStrings : KickBegin(u, g, s)
  \/ \E r \in InFlight : KickPullMembers(r)
  \/ \E r \in InFlight : KickPullRoles(r)
  \/ \E u \in Users, c \in ChannelIds : PostMessageBegin(u, c)
  \/ \E r \in InFlight : PostMessageSave(r)
  \/ \E u \in Users, m \in MessageIds : DeleteMessageBegin(u, m)
  \/ \E r \in InFlight : DeleteMessageDelete(r)
  \/ \E u \in Users, g \in GuildIds : ListInvites(u, g)

SpecOwner == InitOwner /\ [][NextOwner]_vars

(***************************************************************************)
(* The permission checks as functions of the guild document.  The guild    *)
(* here is any document of the schema with the default @everyone role and a *)
(* second role: role members are set by no route, so every assignment is    *)
(* drawn.  The one action asks a handler's check for a user.                *)
(***************************************************************************)
Vocabulary ==
  {"SEND_MESSAGES", "MANAGE_MESSAGES", "MANAGE_CHANNELS", "MANAGE_ROLES",
   "KICK_MEMBERS", "CREATE_INVITE", "MANAGE_GUILD"}

\* The check each handler makes for the permission it asks for.
hasPermission(p, g, u) ==
  CASE p = "SEND_MESSAGES"   -> canSendMessages(g, u)
    [] p = "MANAGE_MESSAGES" -> canManageMessages(g, u)
    [] p = "MANAGE_CHANNELS" -> canManageChannels(g, u)
    [] p = "MANAGE_ROLES"    -> canManageRoles(g, u)
    [] p = "KICK_MEMBERS"    -> canKickMembers(g, u)
    [] p = "CREATE_INVITE"   -> canCreateInvites(g, u)
    [] p = "MANAGE_GUILD"    -> canManageGuild(g, u)

InitPerm ==
  /\ \E em \in SUBSET Users, rm \in SUBSET Users,
        rp \in {{}, {"ADMINISTRATOR"}} \cup {{p} : p \in Vocabulary} :
       guilds = [g \in GuildIds |->
         IF g = 1
         THEN [st |-> "live", name |-> GuildNames[1], owner |-> Owner, members |-> SetToBag(Users),
               roles |-> << [name |-> "@everyone",
                             permissions |-> {"VIEW_CHANNELS", "SEND_MESSAGES", "READ_MESSAGE_HISTORY"},
                             members |-> SetToBag(em)],
                            [name |-> "Role", permissions |-> rp, members |-> SetToBag(rm)] >>]
         ELSE NoGuild("absent")]
  /\ channels = [c \in ChannelIds |->
       IF c = 1 THEN [st |-> "live", guild |-> 1, name |-> "general"] ELSE NoChannel("absent")]
  /\ messages = [m \in MessageIds |-> NoMessage("absent")]
  /\ conversations = [c \in ConversationIds |-> NoConversation("absent")]
  /\ sockets = [s \in SocketIds |-> NoSocket]
  /\ invites = [i \in InviteIds |-> NoInvite("absent")]
  /\ reqs = EmptyBag
  /\ now = 0
  /\ resp = NoResp
  /\ events = {}

CheckPermission(u, g, p) ==
  /\ Live(guilds[g])
  /\ IF hasPermission(p, guilds[g], u)
     THEN Answer(p, u, 0, g, "OK", "-")
     ELSE Answer(p, u, 0, g, "Forbidden", "noPermission")
  /\ UNCHANGED <<store, sockets, reqs, now>>

NextPerm == \E u \in Users, g \in GuildIds, p \in Vocabulary : CheckPermission(u, g, p)

SpecPerm == InitPerm /\ [][NextPerm]_vars

(***************************************************************************)
(* The channels of a guild: the guild as its owner created it, under the   *)
(* channel operations and the messages posted to the channels.              *)
(***************************************************************************)
InitChannels ==
  /\ guilds = [g \in GuildIds |->
       IF g = 1
       THEN preSave([st |-> "live", name |-> GuildNames[1], owner |-> Owner, members |-> SetToBag({Owner}), roles |-> <<>>])
       ELSE NoGuild("absent")]
  /\ channels = [c \in ChannelIds |->
       IF c = 1 THEN [st |-> "live", guild |-> 1, name |-> "general"] ELSE NoChannel("absent")]
  /\ messages = [m \in MessageIds |-> NoMessage("absent")]
  /\ conversations = [c \in ConversationIds |-> NoConversation("absent")]
  /\ sockets = [s \in SocketIds |-> NoSocket]
  /\ invites = [i \in InviteIds |-> NoInvite("absent")]
  /\ reqs = EmptyBag
  /\ now = 0
  /\ resp = NoResp
  /\ events = {}

NextChannels ==
  \/ \E u \in Users, g \in GuildIds, n \in DOMAIN ChannelNames : CreateChannelBegin(u, g, n)
  \/ \E r \in InFlight : CreateChannelSave(r)
  \/ \E u \in Users, c \in ChannelIds, n \in DOMAIN ChannelNames : UpdateChannelBegin(u, c, n)
  \/ \E r \in InFlight : UpdateChannelUpdate(r)
  \/ \E u \in Users, c \in ChannelIds : DeleteChannelBegin(u, c)
  \/ \E r \in InFlight : DeleteChannelCount(r)
  \/ \E r \in InFlight : DeleteChannelMessages(r)
  \/ \E r \in InFlight : DeleteChannelDelete(r)
  \/ \E u \in Users, c \in ChannelIds : PostMessageBegin(u, c)
  \/ \E r \in InFlight : PostMessageSave(r)
  \/ \E u \in Users, m \in MessageIds : DeleteMessageBegin(u, m)
  \/ \E r \in InFlight : DeleteMessageDelete(r)

SpecChannels == InitChannels /\ [][NextChannels]_vars

(***************************************************************************)
(* The guild document: guilds created on an empty store, under the routes   *)
(* that write the guild document or delete it.  A request names a guild     *)
(* only once the guild's creation has been answered: the id of a new guild  *)
(* reaches its creator with the response.                                   *)
(***************************************************************************)
KnownGuilds == {g \in GuildIds : \A r \in InFlight : ~(r.op = "createGuild" /\ r.g = g)}

NextGuild ==
  \/ \E u \in Users, n \in DOMAIN GuildNames : CreateGuildBegin(u, n)
  \/ \E r \in InFlight : CreateGuildSaveChannel(r)
  \/ \E u \in Users, g \in KnownGuilds, n \in DOMAIN GuildNames : UpdateGuildBegin(u, g, n)
  \/ \E r \in InFlight : UpdateGuildUpdate(r)
  \/ \E u \in Users, g \in KnownGuilds : DeleteGuildBegin(u, g)
  \/ \E r \in InFlight : DeleteGuildChannels(r)
  \/ \E r \in InFlight : DeleteGuildDelete(r)
  \/ \E u \in Users, g \in KnownGuilds, b \in DOMAIN RoleBodies : CreateRoleBegin(u, g, b)
  \/ \E r \in InFlight : CreateRoleSave(r)
  \/ \E u \in Users, g \in KnownGuilds, s \in IdStrings : KickBegin(u, g, s)
  \/ \E r \in InFlight : KickPullMembers(r)
  \/ \E r \in InFlight : KickPullRoles(r)

SpecGuild == Init /\ [][NextGuild]_vars

(***************************************************************************)
(* The messages of a channel: a guild of Owner which a second user has      *)
(* joined, under post, edit and delete of messages and kick.                *)
(***************************************************************************)
Joiner == "B"

InitMessages ==
  /\ guilds = [g \in GuildIds |->
       IF g = 1
       THEN SaveJoinedGuild(
              preSave([st |-> "live", name |-> GuildNames[1], owner |-> Owner,
                       members |-> SetToBag({Owner}), roles |-> <<>>]),
              Joiner, 1)
       ELSE NoGuild("absent")]
  /\ channels = [c \in ChannelIds |->
       IF c = 1 THEN [st |-> "live", guild |-> 1, name |-> "general"] ELSE NoChannel("absent")]
  /\ messages = [m \in MessageIds |-> NoMessage("absent")]
  /\ conversations = [c \in ConversationIds |-> NoConversation("absent")]
  /\ sockets = [s \in SocketIds |-> NoSocket]
  /\ invites = [i \in InviteIds |-> NoInvite("absent")]
  /\ reqs = EmptyBag
  /\ now = 0
  /\ resp = NoResp
  /\ events = {}

NextMessages ==
  \/ \E u \in Users, c \in ChannelIds : PostMessageBegin(u, c)
  \/ \E r \in InFlight : PostMessageSave(r)
  \/ \E u \in Users, m \in MessageIds, k \in DOMAIN Contents : EditMessageBegin(u, m, k)
  \/ \E r \in InFlight : EditMessageUpdate(r)
  \/ \E u \in Users, m \in MessageIds : DeleteMessageBegin(u, m)
  \/ \E r \in InFlight : DeleteMessageDelete(r)
  \/ \E u \in Users, g \in GuildIds, s \in IdStrings : KickBegin(u, g, s)
  \/ \E r \in InFlight : KickPullMembers(r)
  \/ \E r \in InFlight : KickPullRoles(r)

SpecMessages == InitMessages /\ [][NextMessages]_vars

(***************************************************************************)
(* The invites of a guild: a guild of Owner which a second user has joined, *)
(* with no invite yet, under the invite routes and kick.                    *)
(***************************************************************************)
NextInvites ==
  \/ \E u \in Users, g \in GuildIds : CreateInviteBegin(u, g)
  \/ \E r \in InFlight : CreateInviteSave(r)
  \/ \E u \in Users, g \in GuildIds : ListInvites(u, g)
  \/ \E u \in Users, i \in InviteIds : DeleteInviteBegin(u, i)
  \/ \E r \in InFlight : DeleteInviteDelete(r)
  \/ \E u \in Users, code \in InviteIds : JoinBegin(u, code)
  \/ \E r \in InFlight : JoinFindGuild(r)
  \/ \E r \in InFlight : JoinSaveGuild(r)
  \/ \E r \in InFlight : JoinSaveInvite(r)
  \/ \E u \in Users, g \in GuildIds, s \in IdStrings : KickBegin(u, g, s)
  \/ \E r \in InFlight : KickPullMembers(r)
  \/ \E r \in InFlight : KickPullRoles(r)

SpecInvites == InitMessages /\ [][NextInvites]_vars

(***************************************************************************)
(* The socket layer with one publishing route: the guild of Owner joined   *)
(* by Joiner, sockets that connect, send commands and close, and messages  *)
(* posted to the guild's channel.                                          *)
(***************************************************************************)
NextSockets ==
  \/ \E s \in SocketIds, t \in Tokens : Connect(s, t)
  \/ \E s \in SocketIds : Disconnect(s)
  \/ \E s \in SocketIds, g \in GuildIds : joinGuild(s, g)
  \/ \E s \in SocketIds, g \in GuildIds : leaveGuild(s, g)
  \/ \E s \in SocketIds, c \in ChannelIds : joinChannel(s, c)
  \/ \E s \in SocketIds, c \in ChannelIds : leaveChannel(s, c)
  \/ \E s \in SocketIds, c \in ConversationIds : joinConversation(s, c)
  \/ \E s \in SocketIds, c \in ConversationIds : leaveConversation(s, c)
  \/ \E u \in Users, c \in ChannelIds : PostMessageBegin(u, c)
  \/ \E r \in InFlight : PostMessageSave(r)

SpecSockets == InitMessages /\ [][NextSockets]_vars

(***************************************************************************)
(* Conversations and messages: the guild of Owner joined by Joiner with    *)
(* its channel, no conversation yet; conversations are created, and        *)
(* messages are posted to a channel or a conversation, edited and deleted. *)
(***************************************************************************)
NextConversations ==
  \/ \E u \in Users, v \in Recipients_Body : CreateConversationBegin(u, v)
  \/ \E r \in InFlight : CreateConversationSave(r)
  \/ \E u \in Users, c \in ConversationIds : SendMessageBegin(u, c)
  \/ \E r \in InFlight : SendMessageSaveMessage(r)
  \/ \E r \in InFlight : SendMessageSaveConversation(r)
  \/ \E u \in Users, c \in ChannelIds : PostMessageBegin(u, c)
  \/ \E r \in InFlight : PostMessageSave(r)
  \/ \E u \in Users, m \in MessageIds, k \in DOMAIN Contents : EditMessageBegin(u, m, k)
  \/ \E r \in InFlight : EditMessageUpdate(r)
  \/ \E u \in Users, m \in MessageIds : DeleteMessageBegin(u, m)
  \/ \E r \in InFlight : DeleteMessageDelete(r)

SpecConversations == InitMessages /\ [][NextConversations]_vars

(***************************************************************************)
(* Kicks seen from the sockets: the guild of Owner joined by Joiner,       *)
(* sockets of these two users that connect, join and leave the rooms of    *)
(* the guild and of its channels and close, members that are kicked and    *)
(* messages that are posted.                                               *)
(***************************************************************************)
LiveChannels == {c \in ChannelIds : Live(channels[c])}
NextKick ==
  \/ \E s \in SocketIds, u \in {Owner, Joiner} : Connect(s, [kind |-> "signed", id |-> u])
  \/ \E s \in SocketIds : Disconnect(s)
  \/ \E s \in SocketIds, g \in GuildIds : joinGuild(s, g)
  \/ \E s \in SocketIds, g \in GuildIds : leaveGuild(s, g)
  \/ \E s \in SocketIds, c \in LiveChannels : joinChannel(s, c)
  \/ \E s \in SocketIds, c \in LiveChannels : leaveChannel(s, c)
  \/ \E u \in Users, g \in GuildIds, s \in IdStrings : KickBegin(u, g, s)
  \/ \E r \in InFlight : KickPullMembers(r)
  \/ \E r \in InFlight : KickPullRoles(r)
  \/ \E u \in Users, c \in ChannelIds : PostMessageBegin(u, c)
  \/ \E r \in InFlight : PostMessageSave(r)

SpecKick == InitMessages /\ [][NextKick]_vars

(***************************************************************************)
(* Direct messages seen from the sockets: the Store holds conversation 1   *)
(* as POST /api/conversations by Owner with recipient Joiner left it;      *)
(* sockets of users connect, join and leave conversation rooms and close,  *)
(* and users post to conversations.                                        *)
(***************************************************************************)
InitDirect ==
  /\ guilds = [g \in GuildIds |-> NoGuild("absent")]
  /\ channels = [c \in ChannelIds |-> NoChannel("absent")]
  /\ messages = [m \in MessageIds |-> NoMessage("absent")]
  /\ conversations = [c \in ConversationIds |->
       IF c = 1
       THEN [st |-> "live", participants |-> <<Owner, Joiner>>, creator |-> Owner, lastMessage |-> 0]
       ELSE NoConversation("absent")]
  /\ sockets = [s \in SocketIds |-> NoSocket]
  /\ invites = [i \in InviteIds |-> NoInvite("absent")]
  /\ reqs = EmptyBag
  /\ now = 0
  /\ resp = NoResp
  /\ events = {}

NextDirect ==
  \/ \E s \in SocketIds, u \in Users : Connect(s, [kind |-> "signed", id |-> u])
  \/ \E s \in SocketIds : Disconnect(s)
  \/ \E s \in SocketIds, c \in ConversationIds : joinConversation(s, c)
  \/ \E s \in SocketIds, c \in ConversationIds : leaveConversation(s, c)
  \/ \E u \in Users, c \in ConversationIds : SendMessageBegin(u, c)
  \/ \E r \in InFlight : SendMessageSaveMessage(r)
  \/ \E r \in InFlight : SendMessageSaveConversation(r)

SpecDirect == InitDirect /\ [][NextDirect]_vars

(***************************************************************************)
(* Roles and those who hold them: the guild of Owner joined by Joiner;     *)
(* roles are created, invites are created and redeemed, members are        *)
(* kicked, and the routes that ask for a permission are requested.  The    *)
(* channel routes write no member array: they are requested here by the    *)
(* users other than Owner, and a request of theirs that passed its         *)
(* permission test would stay in flight.                                   *)
(***************************************************************************)
NextRoles ==
  \/ \E u \in Users, g \in GuildIds, b \in DOMAIN RoleBodies : CreateRoleBegin(u, g, b)
  \/ \E r \in InFlight : CreateRoleSave(r)
  \/ \E u \in Users, g \in GuildIds : CreateInviteBegin(u, g)
  \/ \E r \in InFlight : CreateInviteSave(r)
  \/ \E u \in Users, g \in GuildIds : ListInvites(u, g)
  \/ \E u \in Users, code \in InviteIds : JoinBegin(u, code)
  \/ \E r \in InFlight : JoinFindGuild(r)
  \/ \E r \in InFlight : JoinSaveGuild(r)
  \/ \E r \in InFlight : JoinSaveInvite(r)
  \/ \E u \in Users, g \in GuildIds, s \in IdStrings : KickBegin(u, g, s)
  \/ \E r \in InFlight : KickPullMembers(r)
  \/ \E r \in InFlight : KickPullRoles(r)
  \/ \E u \in Users \ {Owner}, g \in GuildIds, n \in DOMAIN ChannelNames : CreateChannelBegin(u, g, n)
  \/ \E u \in Users \ {Owner}, c \in ChannelIds, n \in DOMAIN ChannelNames : UpdateChannelBegin(u, c, n)
  \/ \E u \in Users \ {Owner}, c \in ChannelIds : DeleteChannelBegin(u, c)

SpecRoles == InitMessages /\ [][NextRoles]_vars

(***************************************************************************)
(* Messages and what holds them: the guild of Owner joined by Joiner with  *)
(* its channel; messages are posted, channels are created and deleted, and *)
(* the guild is deleted.                                                   *)
(***************************************************************************)
NextRemoval ==
  \/ \E u \in Users, c \in ChannelIds : PostMessageBegin(u, c)
  \/ \E r \in InFlight : PostMessageSave(r)
  \/ \E u \in Users, g \in GuildIds, n \in DOMAIN ChannelNames : CreateChannelBegin(u, g, n)
  \/ \E r \in InFlight : CreateChannelSave(r)
  \/ \E u \in Users, c \in ChannelIds : DeleteChannelBegin(u, c)
  \/ \E r \in InFlight : DeleteChannelCount(r)
  \/ \E r \in InFlight : DeleteChannelMessages(r)
  \/ \E r \in InFlight : DeleteChannelDelete(r)
  \/ \E u \in Users, g \in GuildIds : DeleteGuildBegin(u, g)
  \/ \E r \in InFlight : DeleteGuildChannels(r)
  \/ \E r \in InFlight : DeleteGuildDelete(r)

SpecRemoval == InitMessages /\ [][NextRemoval]_vars

(***************************************************************************)
(* Claims about the invite ledger (checked under SpecLedger).              *)
(***************************************************************************)
Copies(bag, r) == IF BagIn(r, bag) THEN bag[r] ELSE 0
Everyone(g) == guilds[g].roles[1]
NonOwnerMembers(g) == {u \in Users \ {guilds[g].owner} : Includes(guilds[g].members, u)}

\* The redeem state machine of the specification, steps 1 to 3, on one invite.
InviteVerdict(invite, t) ==
  IF ~Live(invite) THEN "invite"
  ELSE IF t > invite.expiresAt THEN "expired"
  ELSE IF invite.maxUses # 0 /\ invite.uses >= invite.maxUses THEN "exhausted"
  ELSE "pass"

\* C3: a redeem that returns success for user u and invite i of guild G leaves
\* i.uses one more than the request read it, u in G.members and u in the
\* member set of G's @everyone role.
C3_RedeemPostcondition ==
  [][\A r \in At("join", "saveInvite") :
       (Copies(reqs', r) < Copies(reqs, r) /\ resp'.op = "join" /\ resp'.status = "OK")
         => /\ invites'[r.id].uses = r.n + 1
            /\ Live(guilds'[r.g])
            /\ Includes(guilds'[r.g].members, r.user)
            /\ Includes(guilds'[r.g].roles[1].members, r.user)]_vars

\* C4: a redeem that fails with an unknown code, an expired or exhausted
\* invite, a requester who is already a member or a guild that no longer
\* exists changes no document of the Store and emits no event.
JoinFailures == {"invite", "expired", "exhausted", "alreadyMember", "guild"}
C4_FailedRedeemChangesNothing ==
  [][(resp'.op = "join" /\ resp'.why \in JoinFailures)
       => (store' = store /\ events' = {})]_vars

C4_Witness ==
  /\ resp.op = "join" /\ resp.why = "guild"
  /\ Live(invites[resp.id])

\* C5: adding the user to guild.members, adding the user to @everyone and
\* incrementing invite.uses are one transition of the Store.
C5_RedeemIsOneTransition ==
  [][\A g \in GuildIds, u \in Users :
       (Live(guilds[g]) /\ Live(guilds'[g])
          /\ Copies(guilds'[g].members, u) > Copies(guilds[g].members, u))
       => /\ Copies(guilds'[g].roles[1].members, u) > Copies(guilds[g].roles[1].members, u)
          /\ \E i \in InviteIds :
               /\ Live(invites[i]) /\ invites[i].guild = g
               /\ invites'[i].uses = invites[i].uses + 1]_vars

\* C6: an invite with maxUses # 0 never has uses > maxUses.
C6_UsesWithinMaxUses ==
  \A i \in InviteIds :
    (Live(invites[i]) /\ invites[i].maxUses # 0) => invites[i].uses <= invites[i].maxUses

\* Two users redeemed an invite of maxUses 1 and its counter stands at 1.
C6_Witness ==
  \E i \in InviteIds :
    /\ Live(invites[i]) /\ invites[i].maxUses = 1 /\ invites[i].uses = 1
    /\ Live(guilds[invites[i].guild])
    /\ Cardinality(NonOwnerMembers(invites[i].guild)) >= 2

\* C7: the users who became members through an invite with maxUses # 0 are at
\* most maxUses.  (Every member of guild 1 but its owner came through invite 1,
\* the only invite of the Store here.)
C7_JoinsWithinMaxUses ==
  \A i \in InviteIds :
    (Live(invites[i]) /\ invites[i].maxUses # 0 /\ Live(guilds[invites[i].guild]))
      => Cardinality(NonOwnerMembers(invites[i].guild)) <= invites[i].maxUses

\* C8: a redeem is decided by the first failing check in the order NotFound,
\* Expired, Exhausted, AlreadyMember: a request is answered NotFound, Expired
\* or Exhausted exactly as that order says of the invite it reads, goes on to
\* the guild only when the invite passes the three, and is answered
\* AlreadyMember only for a member, having passed them.
C8_FirstFailingCheck ==
  [][/\ (resp'.op = "join" /\ resp'.why \in {"invite", "expired", "exhausted"})
          => resp'.why = InviteVerdict(invites[resp'.id], now)
     /\ \A u \in Users, code \in InviteIds :
          LET r == Req("join", u, "findGuild", code, invites[code].guild, NoString, invites[code].uses, 0)
          IN Copies(reqs', r) > Copies(reqs, r) => InviteVerdict(invites[code], now) = "pass"
     /\ (resp'.op = "join" /\ resp'.why = "alreadyMember")
          => /\ Includes(guilds[resp'.g].members, resp'.user)
             /\ \E r \in At("join", "findGuild") :
                  r.user = resp'.user /\ r.id = resp'.id /\ Copies(reqs', r) < Copies(reqs, r)
     /\ \A r \in At("join", "findGuild") :
          Copies(reqs', [r EXCEPT !.pc = "saveGuild", !.k = 1]) > Copies(reqs, [r EXCEPT !.pc = "saveGuild", !.k = 1])
            => ~Includes(guilds[r.g].members, r.user)]_vars

\* An invite both expired and exhausted was presented and answered Expired.
C8_Witness ==
  /\ resp.op = "join" /\ resp.why = "expired"
  /\ Live(invites[resp.id]) /\ isMaxUsesReached(invites[resp.id])

\* C9: invite.uses never decreases, so an invite with maxUses # 0 that has
\* uses >= maxUses stays exhausted: every later redeem is answered Exhausted.
C9_ExhaustedStaysExhausted ==
  [][\A i \in InviteIds :
       (Live(invites[i]) /\ Live(invites'[i]))
         => /\ invites'[i].uses >= invites[i].uses
            /\ isMaxUsesReached(invites[i]) => isMaxUsesReached(invites'[i])]_vars

(***************************************************************************)
(* Claims about permissions (checked under SpecOwner and SpecPerm).        *)
(***************************************************************************)
\* C1: no request of a guild's owner is answered with a refusal for lack of
\* permission, whatever requests came before: a response that refuses for
\* lack of permission is never for the owner of the guild it is about.
C1_OwnerNeverLacksPermission ==
  (resp.why = "noPermission" /\ resp.g # 0 /\ Live(guilds[resp.g]))
    => resp.user # guilds[resp.g].owner

\* The owner, or some role holding u that lists p or ADMINISTRATOR.
Expected(g, u, p) ==
  \/ u = g.owner
  \/ \E i \in DOMAIN g.roles :
       Includes(g.roles[i].members, u) /\ (p \in g.roles[i].permissions \/ "ADMINISTRATOR" \in g.roles[i].permissions)

\* C2: for every guild document, user u and permission p that a handler asks
\* for, the handler's check accepts u exactly when u is the owner or some
\* role holding u lists p or ADMINISTRATOR.
C2_CheckIsOwnerOrRole ==
  resp.op \in Vocabulary
    => (resp.status = "OK" <=> Expected(guilds[resp.g], resp.user, resp.op))

(***************************************************************************)
(* Claims about channels (checked under SpecChannels).                     *)
(***************************************************************************)
\* C10: when a delete-channel request counts one channel (or none) in the
\* channel's guild, its next step answers with the last-channel error, and
\* that step changes no document (the channel, its messages and the number of
\* channels of the guild stay as they were) and emits no event; and no other
\* step gives that answer.
C10_LastChannelKept ==
  [][ /\ \A r \in At("deleteChannel", "count") :
           (Copies(reqs', r) < Copies(reqs, r) /\ ChannelCount(r.g) <= 1)
             => /\ resp' = Response("deleteChannel", r.user, r.id, r.g, "BadRequest", "lastChannel")
                /\ store' = store
                /\ events' = {}
      /\ resp'.why = "lastChannel"
           => /\ store' = store
              /\ events' = {}
              /\ ChannelCount(resp'.g) <= 1 ]_vars

\* The only channel of its guild, holding a message, has just been kept.
C10_Witness ==
  /\ resp.op = "deleteChannel" /\ resp.why = "lastChannel"
  /\ Live(channels[resp.id]) /\ ChannelCount(resp.g) = 1
  /\ \E m \in MessageIds : Live(messages[m]) /\ messages[m].channel = resp.id

\* C11: in every reachable state every guild of the store has at least one
\* channel.
C11_GuildHasChannel ==
  \A g \in GuildIds : Live(guilds[g]) => ChannelCount(g) >= 1

(***************************************************************************)
(* Claims about the guild document (checked under SpecGuild).              *)
(***************************************************************************)
\* C12: the step that answers a create-guild request of user A with success
\* leaves the guild with owner A, members {A}, exactly the roles @everyone and
\* Admin in this order, A a member of both, Admin granting ADMINISTRATOR, and
\* a channel named "general" that belongs to the guild.
C12_CreatedGuild ==
  [][(resp'.op = "createGuild" /\ resp'.status = "OK") =>
       LET guild == guilds'[resp'.g] IN
         /\ Live(guild)
         /\ guild.owner = resp'.user
         /\ guild.members = SetToBag({resp'.user})
         /\ Len(guild.roles) = 2
         /\ guild.roles[1].name = "@everyone" /\ guild.roles[2].name = "Admin"
         /\ guild.roles[1].members = SetToBag({resp'.user})
         /\ guild.roles[2].members = SetToBag({resp'.user})
         /\ "ADMINISTRATOR" \in guild.roles[2].permissions
         /\ \E c \in ChannelIds :
              Live(channels'[c]) /\ channels'[c].guild = resp'.g /\ channels'[c].name = "general"]_vars

\* A create-guild request has just been answered with success.
C12_Witness ==
  /\ resp.op = "createGuild" /\ resp.status = "OK"
  /\ Live(guilds[resp.g]) /\ ChannelCount(resp.g) = 1

\* The roles of guild g whose permissions include ADMINISTRATOR.
AdminRoles(g) == {i \in DOMAIN guilds[g].roles : "ADMINISTRATOR" \in guilds[g].roles[i].permissions}

\* C13: in every reachable state every guild has at least one role named
\* @everyone and exactly one role whose permissions include ADMINISTRATOR,
\* and the owner is in that role's member set.
C13_DefaultRolesKept ==
  \A g \in GuildIds :
    Live(guilds[g]) =>
      /\ \E i \in DOMAIN guilds[g].roles : guilds[g].roles[i].name = "@everyone"
      /\ Cardinality(AdminRoles(g)) = 1
      /\ \A i \in AdminRoles(g) : Includes(guilds[g].roles[i].members, guilds[g].owner)

\* C14: in every reachable state the owner of a guild is in the guild's
\* members (no kick removes the owner).
C14_OwnerIsMember ==
  \A g \in GuildIds : Live(guilds[g]) => Includes(guilds[g].members, guilds[g].owner)

(***************************************************************************)
(* Claims about refused requests.                                          *)
(***************************************************************************)
ChannelOps == {"createChannel", "updateChannel", "deleteChannel"}

\* C15: a step that answers a create-, update- or delete-channel request of a
\* user who is not the owner of the (existing) guild and is in no role that
\* lists MANAGE_CHANNELS or ADMINISTRATOR answers Forbidden, changes no
\* channel and no message, and emits no event.
C15_ChannelOpsRefused ==
  [][(/\ resp'.op \in ChannelOps
      /\ resp'.g # 0
      /\ Live(guilds[resp'.g])
      /\ ~Expected(guilds[resp'.g], resp'.user, "MANAGE_CHANNELS"))
       => /\ resp'.status = "Forbidden"
          /\ store' = store
          /\ events' = {}]_vars

\* A user other than the owner has just been refused the deletion of a
\* channel, which is still there.
C15_Witness ==
  /\ resp.op = "deleteChannel" /\ resp.status = "Forbidden"
  /\ resp.user # guilds[resp.g].owner
  /\ Live(channels[resp.id])
  /\ ChannelCount(resp.g) = 2

\* C16: a post to a channel whose check finds the requester outside the
\* members of the channel's guild is answered Forbidden at the check, with no
\* document changed and no event emitted; and a post goes on to its save only
\* for a requester the check found in the members.
C16_NonMemberPostRefused ==
  [][ /\ (/\ resp'.op = "postMessage"
          /\ reqs' = reqs
          /\ resp'.g # 0
          /\ Live(guilds[resp'.g])
          /\ ~Includes(guilds[resp'.g].members, resp'.user))
           => /\ resp'.status = "Forbidden"
              /\ store' = store
              /\ events' = {}
      /\ \A r \in {x \in BagToSet(reqs') : x.op = "postMessage"} :
           Copies(reqs', r) > Copies(reqs, r) => Includes(guilds[r.g].members, r.user) ]_vars

\* A user whom a kick has taken out of the members but not yet out of the
\* roles has just been refused a post.
C16_Witness ==
  /\ resp.op = "postMessage" /\ resp.status = "Forbidden" /\ resp.why = "notMember"
  /\ Includes(Everyone(resp.g).members, resp.user)
  /\ \A m \in MessageIds : ~Live(messages[m])

\* The capability the claim asks of the actor of a guild request.
LacksCapability(op, g, u) ==
  CASE op = "kick"        -> ~Expected(g, u, "KICK_MEMBERS")
    [] op = "createRole"  -> ~Expected(g, u, "MANAGE_ROLES")
    [] op = "updateGuild" -> g.owner # u
    [] op = "deleteGuild" -> g.owner # u
    [] OTHER              -> FALSE

\* C17: a step that answers a kick, create-role, update-guild or delete-guild
\* request of an actor without the capability (KICK_MEMBERS, MANAGE_ROLES,
\* ownership, ownership) on the existing guild answers Forbidden, changes no
\* document and emits no event.
C17_GuildOpsRefused ==
  [][(/\ resp'.op \in {"kick", "createRole", "updateGuild", "deleteGuild"}
      /\ Live(guilds[resp'.g])
      /\ LacksCapability(resp'.op, guilds[resp'.g], resp'.user))
       => /\ resp'.status = "Forbidden"
          /\ store' = store
          /\ events' = {}]_vars

\* A user other than the owner has just been refused the deletion of a guild
\* that has a role beyond the two default ones.
C17_Witness ==
  /\ resp.op = "deleteGuild" /\ resp.status = "Forbidden"
  /\ Live(guilds[resp.g]) /\ resp.user # guilds[resp.g].owner
  /\ Len(guilds[resp.g].roles) > 2
  /\ ChannelCount(resp.g) = 1

(***************************************************************************)
(* Claims about messages (checked under SpecMessages).                     *)
(***************************************************************************)
\* C18: an edit or delete request is refused (Forbidden) only to a requester
\* who is not the author of the message; an edit or a delete in flight that
\* finds its message still there succeeds, whatever the guild's members and
\* roles are by then; and a step that answers an edit request of anyone but
\* the author of the existing message answers Forbidden and changes nothing.
C18_AuthorMayEditAndDelete ==
  [][ /\ (resp'.op \in {"editMessage", "deleteMessage"} /\ resp'.status = "Forbidden")
           => (Live(messages[resp'.id]) /\ messages[resp'.id].author # resp'.user)
      /\ \A r \in At("editMessage", "update") :
           (Copies(reqs', r) < Copies(reqs, r) /\ Live(messages[r.id]))
             => /\ r.user = messages[r.id].author
                /\ resp'.status = "OK"
                /\ messages'[r.id].content = Contents[r.k]
      /\ \A r \in At("deleteMessage", "delete") :
           Copies(reqs', r) < Copies(reqs, r)
             => (resp'.status = "OK" /\ ~Live(messages'[r.id]))
      /\ (/\ resp'.op = "editMessage"
          /\ Live(messages[resp'.id])
          /\ messages[resp'.id].author # resp'.user)
           => /\ resp'.status = "Forbidden"
              /\ store' = store
              /\ events' = {} ]_vars

\* The author, kicked from the guild since, has just edited the message.
C18_Witness ==
  /\ resp.op = "editMessage" /\ resp.status = "OK"
  /\ resp.user = Joiner
  /\ Live(guilds[1]) /\ ~Includes(guilds[1].members, Joiner) /\ ~Includes(Everyone(1).members, Joiner)
  /\ messages[resp.id].content = Contents[2]

(***************************************************************************)
(* Claims about creating and deleting invites.                             *)
(***************************************************************************)
\* Member of the guild, and owner or in a role listing CREATE_INVITE or
\* ADMINISTRATOR.
MayCreateInvite(g, u) == Includes(g.members, u) /\ Expected(g, u, "CREATE_INVITE")

\* C19: a create-invite request goes on to its save only for a requester its
\* check found a member of the guild and owner or holder of CREATE_INVITE or
\* ADMINISTRATOR; for any other requester the check answers Forbidden and
\* changes nothing; and an invite comes into the store only with the success
\* of a create-invite request.
C19_CreateInviteGated ==
  [][ /\ \A r \in {x \in BagToSet(reqs') : x.op = "createInvite"} :
           Copies(reqs', r) > Copies(reqs, r) => MayCreateInvite(guilds[r.g], r.user)
      /\ (/\ resp'.op = "createInvite"
          /\ reqs' = reqs
          /\ Live(guilds[resp'.g])
          /\ ~MayCreateInvite(guilds[resp'.g], resp'.user))
           => /\ resp'.status = "Forbidden"
              /\ store' = store
              /\ events' = {}
      /\ (\E i \in InviteIds : ~Live(invites[i]) /\ Live(invites'[i]))
           => (resp'.op = "createInvite" /\ resp'.status = "OK") ]_vars

\* A member who holds only the @everyone role has just been refused an invite.
C19_Witness ==
  /\ resp.op = "createInvite" /\ resp.status = "Forbidden" /\ resp.why = "noPermission"
  /\ Includes(guilds[resp.g].members, resp.user)
  /\ Includes(Everyone(resp.g).members, resp.user)
  /\ \A i \in InviteIds : ~Live(invites[i])

\* The invite's creator, or owner or holder of MANAGE_GUILD or ADMINISTRATOR in
\* the invite's guild.
MayDeleteInvite(invite, u) ==
  \/ invite.creator = u
  \/ Live(guilds[invite.guild]) /\ Expected(guilds[invite.guild], u, "MANAGE_GUILD")

\* C20: a step that answers a delete-invite request on an invite of the store
\* answers success and leaves the invite deleted when the requester is the
\* invite's creator or holds MANAGE_GUILD (or is owner or administrator) in
\* the invite's guild, and otherwise answers Forbidden and changes nothing.
C20_DeleteInviteGated ==
  [][(resp'.op = "deleteInvite" /\ Live(invites[resp'.id])) =>
       IF MayDeleteInvite(invites[resp'.id], resp'.user)
       THEN resp'.status = "OK" /\ ~Live(invites'[resp'.id])
       ELSE resp'.status = "Forbidden" /\ store' = store]_vars

(***************************************************************************)
(* Sockets and rooms.                                                      *)
(***************************************************************************)
\* The sockets an event of the step just taken is delivered to.
Reached(e) == Recipients(e.room)

\* C21: a socket that has disconnected is held under no room key, and no
\* event published from then on is delivered to it.
C21_DisconnectedGetsNothing ==
  \A s \in SocketIds :
    sockets[s].st = "disconnected" =>
      /\ sockets[s].rooms = {}
      /\ \A e \in events : s \notin Reached(e)

\* An event is published, and delivered to a subscriber, after another socket
\* has disconnected.
C21_Witness ==
  \E s, t \in SocketIds, e \in events :
    /\ sockets[s].st = "disconnected"
    /\ t \in Reached(e)

EntersBy(s, room) ==
  CASE room.kind = "guild" -> joinGuild(s, room.id)
    [] room.kind = "channel" -> joinChannel(s, room.id)
    [] room.kind = "conversation" -> joinConversation(s, room.id)
    [] OTHER -> FALSE

LeavesBy(s, room) ==
  \/ Disconnect(s)
  \/ room.kind = "guild" /\ leaveGuild(s, room.id)
  \/ room.kind = "channel" /\ leaveChannel(s, room.id)
  \/ room.kind = "conversation" /\ leaveConversation(s, room.id)

BadToken(token) == token.kind \in {"missing", "invalid"}

\* C24: a connection attempt whose token is missing or does not verify never
\* becomes a session: it is refused, it is held under no room key (whatever
\* commands are sent on it), and no event is delivered to it.
C24_BadTokenNoSession ==
  \A s \in SocketIds :
    (sockets[s].st # "none" /\ BadToken(sockets[s].token)) =>
      /\ sockets[s].st = "refused"
      /\ sockets[s].rooms = {}
      /\ \A e \in events : s \notin Reached(e)

\* A handshake with a token that does not verify was refused, and an event
\* is published afterwards and delivered to a session.
C24_Witness ==
  \E s, t \in SocketIds, e \in events :
    /\ sockets[s].st = "refused" /\ sockets[s].token.kind = "invalid"
    /\ t \in Reached(e)

\* The keys a command can name.
CommandRooms ==
  {GuildRoom(g) : g \in GuildIds} \cup {ChannelRoom(c) : c \in ChannelIds}
    \cup {ConversationRoom(c) : c \in ConversationIds}

Pair(c) == Elements(conversations[c].participants)

\* C26: no two Conversation documents are between the same unordered pair of
\* users, whatever create-conversation requests ran concurrently.
C26_OneConversationPerPair ==
  \A c, d \in ConversationIds :
    (Live(conversations[c]) /\ Live(conversations[d]) /\ Pair(c) = Pair(d)) => c = d

\* C27: every Conversation has exactly two participants, and they are two
\* different users (a create-conversation request naming the requester as
\* recipient creates none).
C27_TwoDistinctParticipants ==
  \A c \in ConversationIds :
    Live(conversations[c]) =>
      /\ Len(conversations[c].participants) = 2
      /\ conversations[c].participants[1] # conversations[c].participants[2]

\* C28: every Message that exists names exactly one container: a channel or
\* a conversation, never both and never neither, whatever was posted, edited
\* or deleted.
C28_OneContainer ==
  \A m \in MessageIds :
    Live(messages[m]) => (messages[m].channel # 0) # (messages[m].conversationId # 0)

\* A message of a conversation has been edited.
C28_Witness ==
  \E m \in MessageIds :
    /\ Live(messages[m])
    /\ messages[m].conversationId # 0
    /\ messages[m].content = Contents[2]
    /\ resp.op = "editMessage" /\ resp.status = "OK"

(***************************************************************************)
(* Member arrays.                                                          *)
(***************************************************************************)
\* C29: in every state, whoever is in the member array of a role of a guild
\* is in the guild's member array (between the two writes of a kick and
\* across a kick interleaved with a redeem as well).
C29_RoleMembersAreMembers ==
  \A g \in GuildIds :
    Live(guilds[g]) =>
      \A i \in DOMAIN guilds[g].roles, u \in Users :
        Includes(guilds[g].roles[i].members, u) => Includes(guilds[g].members, u)

\* C30: in every state, the member array of a guild and the member array of
\* each of its roles hold no user more than once (two concurrent redeems of
\* one user included).
C30_NoDuplicateMembers ==
  \A g \in GuildIds :
    Live(guilds[g]) =>
      \A u \in Users :
        /\ Copies(guilds[g].members, u) <= 1
        /\ \A i \in DOMAIN guilds[g].roles : Copies(guilds[g].roles[i].members, u) <= 1

(***************************************************************************)
(* Conversations and their last message.                                   *)
(***************************************************************************)
\* The messages of conversation c that exist; ids are handed out in the
\* order of construction, so the most recently created has the largest id.
MessagesOf(c) == {m \in MessageIds : Live(messages[m]) /\ messages[m].conversationId = c}
MostRecent(S) == CHOOSE m \in S : \A n \in S : n <= m

\* C31: in every state the lastMessage of a conversation is null when the
\* conversation has no message, and otherwise is the most recently created
\* message of the conversation that still exists.
C31_LastMessageIsMostRecent ==
  \A c \in ConversationIds :
    Live(conversations[c]) =>
      conversations[c].lastMessage =
        (IF MessagesOf(c) = {} THEN 0 ELSE MostRecent(MessagesOf(c)))

(***************************************************************************)
(* Events.                                                                 *)
(***************************************************************************)
\* C32: events are emitted only by the step that answers a request with
\* success, after its writes, at most one per target room; a request that
\* ends in NotFound, Forbidden or any other error emits none.
C32_EventsOnlyOnSuccess ==
  /\ events # {} => resp.status = "OK"
  /\ \A e, f \in events : e.room = f.room => e = f

\* The user a successful kick removed, read off the notice it published.
Kicked == {CastObjectId(e.room.who) : e \in {f \in events : f.name = "kickedFromGuild"}}

\* C33: the step that answers a kick of user k from guild g with success
\* publishes memberRemove to guild:<g> and kickedFromGuild to k's user room,
\* and the notice is delivered to every connected session of k, whether or
\* not it is in the guild's room.
C33_KickNotice ==
  (resp.op = "kick" /\ resp.status = "OK") =>
    /\ Event("memberRemove", GuildRoom(resp.g)) \in events
    /\ Kicked # {}
    /\ \A k \in Kicked, s \in SocketIds :
         (Connected(s) /\ sockets[s].user = k) =>
           \E e \in events : e.name = "kickedFromGuild" /\ s \in Reached(e)

Deliveries(s) == {e \in events : e.name = "newMessage" /\ s \in Reached(e)}

\* C35: a socket is delivered the newMessage of a direct message at most
\* once, also when it is both in its user's room and in the room of the
\* message's conversation.
C35_DirectMessageOnce ==
  (resp.op = "sendMessage" /\ resp.status = "OK") =>
    \A s \in SocketIds : Cardinality(Deliveries(s)) <= 1

(***************************************************************************)
(* The uses counter.                                                       *)
(***************************************************************************)
\* C36: the uses counter of an invite counts the redeems that returned
\* success: the step that answers a redeem of the invite with success raises
\* it by one, and no other step changes it.
C36_UsesCountsSuccesses ==
  [][\A i \in InviteIds :
       (Live(invites[i]) /\ Live(invites'[i])) =>
         invites'[i].uses = invites[i].uses
           + (IF resp'.op = "join" /\ resp'.status = "OK" /\ resp'.id = i THEN 1 ELSE 0)]_vars

(***************************************************************************)
(* Non-owners and roles.                                                   *)
(***************************************************************************)
\* The routes that ask the requester for a permission of the guild.
PermissionOps ==
  {"createChannel", "updateChannel", "deleteChannel", "createRole", "kick", "createInvite", "listInvites"}

\* C37: in every state no user other than the owner is in the member array
\* of a role other than the guild's first role, the @everyone role made with
\* the guild; and a step that answers a create/update/delete-channel,
\* create-role, kick, create-invite or list-invites request of a user other
\* than the owner on an existing guild answers Forbidden, none of their
\* requests getting past its permission test.
C37_NonOwnersHoldNoRole ==
  /\ [](\A g \in GuildIds :
          Live(guilds[g]) =>
            /\ guilds[g].roles[1].name = "@everyone"
            /\ \A i \in DOMAIN guilds[g].roles, u \in Users \ {guilds[g].owner} :
                 Includes(guilds[g].roles[i].members, u) => i = 1
            /\ \A r \in InFlight :
                 (r.op \in PermissionOps /\ r.g = g) => r.user = guilds[g].owner)
  /\ [][(/\ resp'.op \in PermissionOps
         /\ resp'.g \in GuildIds
         /\ Live(guilds[resp'.g])
         /\ resp'.user # guilds[resp'.g].owner)
          => resp'.status = "Forbidden"]_vars

\* A member other than the owner has just been refused a permission route
\* while the guild has a third role, one that lists ADMINISTRATOR, and two
\* members besides the owner hold @everyone.
C37_Witness ==
  /\ resp.op \in PermissionOps /\ resp.status = "Forbidden"
  /\ resp.g \in GuildIds /\ Live(guilds[resp.g])
  /\ resp.user # guilds[resp.g].owner
  /\ Includes(guilds[resp.g].members, resp.user)
  /\ Len(guilds[resp.g].roles) = 3
  /\ "ADMINISTRATOR" \in guilds[resp.g].roles[3].permissions
  /\ \A u \in Users : Includes(guilds[resp.g].roles[1].members, u)

(***************************************************************************)
(* Kicks and rooms.                                                        *)
(***************************************************************************)
\* C38: no step of a kick changes the rooms of any socket, and an event
\* published to a room of the guild or of one of its channels is delivered
\* to every connected socket in that room, sockets of users who are no
\* longer members of the guild included.
C38_KickLeavesRooms ==
  /\ [][(\/ resp'.op = "kick"
         \/ \E r \in InFlight \cup BagToSet(reqs') :
              r.op = "kick" /\ Copies(reqs', r) # Copies(reqs, r))
          => sockets' = sockets]_vars
  /\ [](\A e \in events, s \in SocketIds :
          (Connected(s) /\ e.room \in sockets[s].rooms) => s \in Reached(e))

\* A message is delivered to a socket of Joiner in channel 1's room after
\* Joiner has been removed from the guild's members and roles.
C38_Witness ==
  \E s \in SocketIds, e \in events :
    /\ Connected(s) /\ sockets[s].user = Joiner
    /\ ~Includes(guilds[1].members, Joiner)
    /\ ~Includes(guilds[1].roles[1].members, Joiner)
    /\ {GuildRoom(1), ChannelRoom(1)} \subseteq sockets[s].rooms
    /\ e = Event("newMessage", ChannelRoom(1))
    /\ s \in Reached(e)

(***************************************************************************)
(* Messages and their channels.                                            *)
(***************************************************************************)
\* C39: in every state every message that names a channel names one that
\* exists: no delete-channel and no delete-guild leaves a message of a
\* deleted channel behind, a post in flight during the deletion included.
C39_MessagesHaveChannels ==
  \A m \in MessageIds :
    (Live(messages[m]) /\ messages[m].channel # 0) => Live(channels[messages[m].channel])

====
